---- MODULE Spec2Model ----
(***************************************************************************)
(* The opcode builder of the Glimmer VM                                    *)
(* (packages/@glimmer/runtime/lib/compiled/opcodes/builder.ts): the label  *)
(* table (class Labels), the label-scope stack, the local-register         *)
(* counter, the primitive-literal encoding and finalize, as a state        *)
(* machine over the program buffer the builder writes to.                  *)
(*                                                                         *)
(* A builder call is one action.  A call that throws ends the run: the     *)
(* error leaves the builder (status "fault") with whatever the call had    *)
(* already written.                                                        *)
(*                                                                         *)
(* The VM that runs the emitted instructions and the rendering strategies  *)
(* (first-pass render with block markers, rehydrating pass) are modelled   *)
(* beside the builder, each with its own variables and specification.      *)
(***************************************************************************)
EXTENDS Integers, Sequences, FiniteSets, TLC

VARIABLES
    program,      \* Program: the instruction stream, one record per instruction
    start,        \* BasicOpcodeBuilder.start
    labelsStack,  \* BasicOpcodeBuilder.labelsStack (top = last element)
    locals,       \* BasicOpcodeBuilder.locals
    localsSize,   \* BasicOpcodeBuilder._localsSize
    strings,      \* Constants: the string pool, handle = position
    status,       \* "open" | "finalized" | "fault"
    fault,        \* message of the error thrown, "" while none
    lastOp,       \* history: the builder method called last
    placed,       \* history: per open scope, label name -> offset of the next
                  \*          instruction when label(name) was last called
    refs,         \* history: per open scope, the references reserved in it
    closedAll,    \* history: the scopes closed so far, in closing order
    lastRet,      \* history: value returned by the last local() call
    returned,     \* history: every value local() has returned
    highWater,    \* history: the largest value locals has had
    live,         \* history: the registers their callers still hold, oldest first
    lifo,         \* history: every release so far gave back the newest held register
    relIdx,       \* history: <<r>> when register r was given back and local()
                  \*          has not been called since, else <<>>
    reuse,        \* history: the last local() returned a value returned before
    prims,        \* history: [at, lit] of every primitive() that emitted
    invoked,      \* history: [at, len, state, block, inverse, count] of every
                  \*          invokeComponent() call
    statics,      \* history: [at, len, block, args] of every invokeStatic() call
    builders,     \* the builders constructed on the same program after this
                  \*          one, as [start, locals, localsSize, status]
    frames,       \* the helpers (labelled, iter, unit) whose callback is running,
                  \*          innermost last
    helped,       \* history: the helper calls that have returned, in order
    byHelpers,    \* history: the number of instructions pushed by helpers
    vm,           \* the VM: "idle" | "running" | "halted"
    pc,           \* the VM's program counter
    items,        \* the keyed sequence the VM was started on, as its keys
    iterator,     \* the keys the iterator has not yet given out
    item,         \* the key of the item being rendered, 0 outside the loop body
    trace,        \* history: [at, item, regions] of every instruction the VM
                  \*          executed, regions as they were after it
    regions,      \* the VM's regions entered and not yet left, innermost last
    template,     \* the template being rendered, <<>> before the first render
    serverContext,\* the context of the server-side render
    serverOutput, \* what the server-side render left in the element
    serverRemotes,\* what it left in the remote elements, by target
    remotes,      \* the children of the remote elements, by target
    context,      \* the context of the client-side render
    tree,         \* the children of the element rendered into, in order
    rendered,     \* "none" | "server" | "client"
    removed,      \* rehydrationStats.clearedNodes.length
    mismatch,     \* the rehydrating pass met a marker it could not pair
    events        \* history: what the rehydrating pass did at its cursor

vars == <<program, start, labelsStack, locals, localsSize, strings, status,
          fault, lastOp, placed, refs, closedAll, lastRet, returned, highWater,
          live, lifo, relIdx, reuse, prims, invoked, statics, builders, frames,
          helped, byHelpers,
          vm, pc, items, iterator, item, trace, regions, template, serverContext,
          serverOutput, serverRemotes, remotes, context, tree, rendered, removed,
          mismatch, events>>

labelVars == <<labelsStack, placed, refs, closedAll>>
localVars == <<locals, localsSize, lastRet, returned, highWater, live, lifo,
               relIdx, reuse>>
\* What the methods of BasicOpcodeBuilder never touch.
vmVars == <<vm, pc, items, iterator, item, trace, regions>>
domVars == <<template, serverContext, serverOutput, serverRemotes, remotes,
             context, tree, rendered, removed, mismatch, events>>
\* What only invokeStatic and the other builders of the program touch.
sharedVars == <<statics, builders>>
outsideVars == <<invoked, sharedVars, frames, helped, byHelpers, vmVars, domVars>>

(***************************************************************************)
(* Bounds of the model.                                                    *)
(***************************************************************************)
MaxEmit == 2         \* instructions one builder emits after its ReserveLocals
MaxScopes == 2       \* label scopes opened over one run
MaxLocals == 2       \* local() is not called with this many registers counted
MaxUnderflow == 1    \* releaseLocal is not called with the count at -MaxUnderflow

(***************************************************************************)
(* Values of the source language.                                          *)
(***************************************************************************)
\* A dict miss: this.labels[name] for a name never stored.
Undefined == 0 - 1
\* undefined - 4
NaN == 0 - 2

LabelNames == {"BEGIN", "END", "ITER", "BREAK"}
TargetOpcode == {"Jump", "JumpIf", "JumpUnless"}
RangeOpcode == {"Enter", "EnterList"}

(***************************************************************************)
(* Program: fixed-width instructions, four words each, addressed by the    *)
(* offset of their first word.                                             *)
(***************************************************************************)
InstrWidth == 4

Instr(name, a, b, c) == [op |-> name, op1 |-> a, op2 |-> b, op3 |-> c]

ProgramNext(p) == InstrWidth * Len(p)

ProgramCurrent(p) == InstrWidth * Len(p) - InstrWidth

ProgramPush(p, name, a, b, c) == Append(p, Instr(name, a, b, c))

ProgramSet(p, at, name, a, b, c) ==
    [p EXCEPT ![(at \div InstrWidth) + 1] = Instr(name, a, b, c)]

ProgramAt(p, at) == p[(at \div InstrWidth) + 1]

(***************************************************************************)
(* class Labels                                                            *)
(***************************************************************************)
NewLabels ==
    [labels |-> [n \in LabelNames |-> Undefined],
     jumps |-> <<>>, ranges |-> <<>>, iters |-> <<>>]

\* A bug Labels.label could have: the offset of the last instruction
\* (program.current) stored instead of the next one.
Labels_label_current(L, name, index) ==
    [L EXCEPT !.labels[name] = index - InstrWidth]

Labels_label(L, name, index) == [L EXCEPT !.labels[name] = index]

Labels_iter(L, at, breaks, st, end) ==
    [L EXCEPT !.iters = Append(@, [at |-> at, breaks |-> breaks, start |-> st, end |-> end])]

Labels_jump(L, at, Target, target) ==
    [L EXCEPT !.jumps = Append(@, [at |-> at, target |-> target, Target |-> Target])]

Labels_range(L, at, Range, st, end) ==
    [L EXCEPT !.ranges = Append(@, [at |-> at, start |-> st, end |-> end, Range |-> Range])]

\* x - 4 in the source language: undefined - 4 is NaN.
Minus4(x) == IF x = Undefined THEN NaN ELSE x - InstrWidth

\* A bug Labels.patch could have: every jump written back as Op.Jump,
\* whatever opcode it was reserved with.
RECURSIVE PatchJumps_asJump(_, _, _)
PatchJumps_asJump(L, js, p) ==
    IF js = <<>> THEN p
    ELSE PatchJumps_asJump(L, Tail(js),
            ProgramSet(p, Head(js).at, "Jump",
                       L.labels[Head(js).target], 0, 0))

RECURSIVE PatchJumps(_, _, _)
PatchJumps(L, js, p) ==
    IF js = <<>> THEN p
    ELSE PatchJumps(L, Tail(js),
            ProgramSet(p, Head(js).at, Head(js).Target,
                       L.labels[Head(js).target], 0, 0))

RECURSIVE PatchRanges(_, _, _)
PatchRanges(L, rs, p) ==
    IF rs = <<>> THEN p
    ELSE PatchRanges(L, Tail(rs),
            ProgramSet(p, Head(rs).at, Head(rs).Range,
                       L.labels[Head(rs).start], Minus4(L.labels[Head(rs).end]), 0))

RECURSIVE PatchIters(_, _, _)
PatchIters(L, is, p) ==
    IF is = <<>> THEN p
    ELSE PatchIters(L, Tail(is),
            ProgramSet(p, Head(is).at, "Iterate",
                       L.labels[Head(is).breaks], L.labels[Head(is).start],
                       Minus4(L.labels[Head(is).end])))

Labels_patch(L, opcodes) ==
    PatchIters(L, L.iters, PatchRanges(L, L.ranges, PatchJumps(L, L.jumps, opcodes)))

(***************************************************************************)
(* BasicOpcodeBuilder: construction                                        *)
(***************************************************************************)
\* The program handed to the constructor: empty, or already written to by
\* another builder of the same environment.
Prefixes == {<<>>, <<Instr("Text", 1, 0, 0)>>}

Init ==
    /\ \E pre \in Prefixes :
          /\ start = ProgramNext(pre)
          /\ program = ProgramPush(pre, "ReserveLocals", 0, 0, 0)
    /\ labelsStack = <<>>
    /\ locals = 0
    /\ localsSize = 0
    /\ strings = <<>>
    /\ status = "open"
    /\ fault = ""
    /\ lastOp = "constructor"
    /\ placed = <<>>
    /\ refs = <<>>
    /\ closedAll = <<>>
    /\ lastRet = 0
    /\ returned = {}
    /\ highWater = 0
    /\ live = <<>>
    /\ lifo = TRUE
    /\ relIdx = <<>>
    /\ reuse = FALSE
    /\ prims = <<>>
    /\ invoked = <<>>
    /\ statics = <<>>
    /\ builders = <<>>
    /\ frames = <<>>
    /\ helped = <<>>
    /\ byHelpers = 0
    /\ vm = "idle"
    /\ pc = 0
    /\ items = <<>>
    /\ iterator = <<>>
    /\ item = 0
    /\ trace = <<>>
    /\ regions = <<>>
    /\ template = <<>>
    /\ serverContext = <<>>
    /\ serverOutput = <<>>
    /\ serverRemotes = [remoteParent |-> <<>>, remoteChild |-> <<>>]
    /\ remotes = [remoteParent |-> <<>>, remoteChild |-> <<>>]
    /\ context = <<>>
    /\ tree = <<>>
    /\ rendered = "none"
    /\ removed = 0
    /\ mismatch = FALSE
    /\ events = <<>>

Open == status = "open"

\* Instructions this builder's caller has pushed after the ReserveLocals
\* slot, those the helpers push around a callback not counted.
Emitted == Len(program) - (start \div InstrWidth) - 1 - byHelpers

Room == Emitted < MaxEmit

\* throw: the error leaves the builder call; nothing after it runs.
Throw(msg) ==
    /\ status' = "fault"
    /\ fault' = msg

NoThrow == UNCHANGED <<status, fault>>

(***************************************************************************)
(* BasicOpcodeBuilder: label scopes                                        *)
(***************************************************************************)
\* A bug the labels getter could have: one label table for the whole
\* builder, the first one opened.
CurrentBottom(stack) == 1

\* Stack.current: the index of the top of the label-scope stack.
Current(stack) == Len(stack)

Pop(s) == SubSeq(s, 1, Len(s) - 1)

\* Stack.current and Stack.pop() are null on an empty stack, and expect()
\* throws its message on null.
NullOnEmpty(stack) == stack = <<>>

startLabels ==
    /\ Open
    /\ Len(labelsStack) + Len(closedAll) < MaxScopes
    /\ lastOp' = "startLabels"
    /\ UNCHANGED outsideVars
    /\ labelsStack' = Append(labelsStack, NewLabels)
    /\ placed' = Append(placed, [n \in LabelNames |-> Undefined])
    /\ refs' = Append(refs, {})
    /\ NoThrow
    /\ UNCHANGED <<program, start, strings, closedAll, prims>>
    /\ UNCHANGED localVars

\* A bug stopLabels could have: a pop of the empty stack taken for a scope
\* with nothing to patch.
stopLabels_unchecked ==
    /\ Open
    /\ lastOp' = "stopLabels"
    /\ UNCHANGED outsideVars
    /\ IF NullOnEmpty(labelsStack)
       THEN UNCHANGED <<program, labelsStack, placed, refs, closedAll>>
       ELSE /\ program' = Labels_patch(labelsStack[Len(labelsStack)], program)
            /\ labelsStack' = Pop(labelsStack)
            /\ closedAll' = Append(closedAll,
                  [depth |-> Len(labelsStack),
                   placed |-> placed[Len(placed)], refs |-> refs[Len(refs)]])
            /\ placed' = Pop(placed)
            /\ refs' = Pop(refs)
    /\ NoThrow
    /\ UNCHANGED <<start, strings, prims>>
    /\ UNCHANGED localVars

stopLabels ==
    /\ Open
    /\ lastOp' = "stopLabels"
    /\ UNCHANGED outsideVars
    /\ IF NullOnEmpty(labelsStack)
       THEN /\ Throw("unbalanced push and pop labels")
            /\ UNCHANGED <<program, labelsStack, placed, refs, closedAll>>
       ELSE /\ program' = Labels_patch(labelsStack[Len(labelsStack)], program)
            /\ labelsStack' = Pop(labelsStack)
            /\ closedAll' = Append(closedAll,
                  [depth |-> Len(labelsStack),
                   placed |-> placed[Len(placed)], refs |-> refs[Len(refs)]])
            /\ placed' = Pop(placed)
            /\ refs' = Pop(refs)
            /\ NoThrow
    /\ UNCHANGED <<start, strings, prims>>
    /\ UNCHANGED localVars

label(name) ==
    /\ Open
    /\ lastOp' = "label"
    /\ UNCHANGED outsideVars
    /\ IF NullOnEmpty(labelsStack)
       THEN /\ Throw("bug: not in a label stack")
            /\ UNCHANGED <<labelsStack, placed>>
       ELSE /\ labelsStack' = [labelsStack EXCEPT ![Current(labelsStack)] =
                  Labels_label(@, name, ProgramNext(program))]
            /\ placed' = [placed EXCEPT ![Len(placed)][name] = InstrWidth * Len(program)]
            /\ NoThrow
    /\ UNCHANGED <<program, start, strings, refs, closedAll, prims>>
    /\ UNCHANGED localVars

\* jump, jumpIf, jumpUnless: reserve(Target), then labels.jump(pos, Target, target)
jumpTo(Target, target) ==
    /\ Open /\ Room
    /\ lastOp' = Target
    /\ UNCHANGED outsideVars
    /\ program' = ProgramPush(program, Target, 0, 0, 0)
    /\ IF NullOnEmpty(labelsStack)
       THEN /\ Throw("bug: not in a label stack")
            /\ UNCHANGED <<labelsStack, refs>>
       ELSE /\ labelsStack' = [labelsStack EXCEPT ![Current(labelsStack)] =
                  Labels_jump(@, ProgramCurrent(program'), Target, target)]
            /\ refs' = [refs EXCEPT ![Len(refs)] = @ \cup
                  {[at |-> InstrWidth * Len(program), op |-> Target, names |-> <<target>>]}]
            /\ NoThrow
    /\ UNCHANGED <<start, strings, placed, closedAll, prims>>
    /\ UNCHANGED localVars

\* enter and enterList as they would be with the label table looked up
\* before the instruction is reserved.
rangeOver_labelsFirst(Range, st, end) ==
    /\ Open /\ Room
    /\ lastOp' = Range
    /\ UNCHANGED outsideVars
    /\ IF NullOnEmpty(labelsStack)
       THEN /\ Throw("bug: not in a label stack")
            /\ UNCHANGED <<program, labelsStack, refs>>
       ELSE /\ program' = ProgramPush(program, Range, 0, 0, 0)
            /\ labelsStack' = [labelsStack EXCEPT ![Current(labelsStack)] =
                  Labels_range(@, ProgramCurrent(program'), Range, st, end)]
            /\ refs' = [refs EXCEPT ![Len(refs)] = @ \cup
                  {[at |-> InstrWidth * Len(program), op |-> Range, names |-> <<st, end>>]}]
            /\ NoThrow
    /\ UNCHANGED <<start, strings, placed, closedAll, prims>>
    /\ UNCHANGED localVars

\* enter, enterList: reserve(Range), then labels.range(pos, Range, start, end)
rangeOver(Range, st, end) ==
    /\ Open /\ Room
    /\ lastOp' = Range
    /\ UNCHANGED outsideVars
    /\ program' = ProgramPush(program, Range, 0, 0, 0)
    /\ IF NullOnEmpty(labelsStack)
       THEN /\ Throw("bug: not in a label stack")
            /\ UNCHANGED <<labelsStack, refs>>
       ELSE /\ labelsStack' = [labelsStack EXCEPT ![Current(labelsStack)] =
                  Labels_range(@, ProgramCurrent(program'), Range, st, end)]
            /\ refs' = [refs EXCEPT ![Len(refs)] = @ \cup
                  {[at |-> InstrWidth * Len(program), op |-> Range, names |-> <<st, end>>]}]
            /\ NoThrow
    /\ UNCHANGED <<start, strings, placed, closedAll, prims>>
    /\ UNCHANGED localVars

iterate(breaks, st, end) ==
    /\ Open /\ Room
    /\ lastOp' = "Iterate"
    /\ UNCHANGED outsideVars
    /\ program' = ProgramPush(program, "Iterate", 0, 0, 0)
    /\ IF NullOnEmpty(labelsStack)
       THEN /\ Throw("bug: not in a label stack")
            /\ UNCHANGED <<labelsStack, refs>>
       ELSE /\ labelsStack' = [labelsStack EXCEPT ![Current(labelsStack)] =
                  Labels_iter(@, ProgramCurrent(program'), breaks, st, end)]
            /\ refs' = [refs EXCEPT ![Len(refs)] = @ \cup
                  {[at |-> InstrWidth * Len(program), op |-> "Iterate",
                    names |-> <<breaks, st, end>>]}]
            /\ NoThrow
    /\ UNCHANGED <<start, strings, placed, closedAll, prims>>
    /\ UNCHANGED localVars

\* exit(): push(Op.Exit); it stands for every emitter that only pushes.
exit ==
    /\ Open /\ Room
    /\ lastOp' = "Exit"
    /\ UNCHANGED outsideVars
    /\ program' = ProgramPush(program, "Exit", 0, 0, 0)
    /\ NoThrow
    /\ UNCHANGED <<start, strings, prims>>
    /\ UNCHANGED labelVars
    /\ UNCHANGED localVars

(***************************************************************************)
(* BasicOpcodeBuilder: finalize                                            *)
(***************************************************************************)
\* A bug finalize could have: the first slot of the program written instead
\* of the slot this builder reserved.
finalize_first ==
    /\ Open
    /\ lastOp' = "finalize"
    /\ UNCHANGED outsideVars
    /\ program' = ProgramPush(
          ProgramSet(program, 0, "ReserveLocals", localsSize, 0, 0),
          "ReleaseLocals", 0, 0, 0)
    /\ status' = "finalized"
    /\ UNCHANGED <<fault, start, strings, prims>>
    /\ UNCHANGED labelVars
    /\ UNCHANGED localVars

finalize ==
    /\ Open
    /\ lastOp' = "finalize"
    /\ UNCHANGED outsideVars
    /\ program' = ProgramPush(
          ProgramSet(program, start, "ReserveLocals", localsSize, 0, 0),
          "ReleaseLocals", 0, 0, 0)
    /\ status' = "finalized"
    /\ UNCHANGED <<fault, start, strings, prims>>
    /\ UNCHANGED labelVars
    /\ UNCHANGED localVars

(***************************************************************************)
(* Jumps under nested label scopes.  The label name is the one the         *)
(* builder's own iter() jumps to.                                          *)
(***************************************************************************)
JumpNames == {"ITER"}

jump == \E t \in JumpNames : jumpTo("Jump", t)

jumpIf == \E t \in JumpNames : jumpTo("JumpIf", t)

jumpUnless == \E t \in JumpNames : jumpTo("JumpUnless", t)

labelJump == \E n \in JumpNames : label(n)

NextLabels ==
    \/ startLabels
    \/ stopLabels
    \/ labelJump
    \/ jump
    \/ jumpIf
    \/ jumpUnless
    \/ finalize

SpecLabels == Init /\ [][NextLabels]_vars

\* The calls that reach for the current label scope, made by a caller that
\* may have opened none.
enter == rangeOver("Enter", "BEGIN", "END")

enterList == rangeOver("EnterList", "BEGIN", "END")

iterateOver == iterate("BREAK", "BEGIN", "END")

NextScoped ==
    \/ startLabels
    \/ labelJump
    \/ jump
    \/ jumpIf
    \/ jumpUnless
    \/ enter
    \/ enterList
    \/ iterateOver

SpecScoped == Init /\ [][NextScoped]_vars

(***************************************************************************)
(* BasicOpcodeBuilder: local registers                                     *)
(***************************************************************************)
\* A bug local() could have: ++this.locals, the incremented count returned.
PreIncrement(n) == [ret |-> n + 1, val |-> n + 1]

\* this.locals++ : the value returned and the value left in the field.
PostIncrement(n) == [ret |-> n, val |-> n + 1]

\* A bug local() could have: _localsSize follows locals without the test.
LocalsSizeFollows(size, n) == n

\* if (this._localsSize < this.locals) this._localsSize = this.locals
LocalsSizeAfter(size, n) == IF size < n THEN n ELSE size

Max(a, b) == IF a < b THEN b ELSE a

Without(sq, k) == SubSeq(sq, 1, k - 1) \o SubSeq(sq, k + 1, Len(sq))

local ==
    /\ Open
    /\ locals < MaxLocals
    /\ Len(live) < MaxLocals + MaxUnderflow
    /\ lastOp' = "local"
    /\ UNCHANGED outsideVars
    /\ locals' = PostIncrement(locals).val
    /\ localsSize' = LocalsSizeAfter(localsSize, locals')
    /\ lastRet' = PostIncrement(locals).ret
    /\ returned' = returned \cup {lastRet'}
    /\ reuse' = (lastRet' \in returned)
    /\ highWater' = Max(highWater, locals')
    /\ live' = Append(live, lastRet')
    /\ relIdx' = <<>>
    /\ NoThrow
    /\ UNCHANGED <<program, start, strings, lifo, prims>>
    /\ UNCHANGED labelVars

\* releaseLocal() takes no argument: which register the caller means to give
\* back is the caller's affair.  k is its place among the registers held, 0
\* for a caller that holds none (a release with no allocation to match).
releaseLocal(k) ==
    /\ Open
    /\ locals > 0 - MaxUnderflow
    /\ lastOp' = "releaseLocal"
    /\ UNCHANGED outsideVars
    /\ locals' = locals - 1
    /\ highWater' = Max(highWater, locals')
    /\ IF k = 0
       THEN /\ live' = live
            /\ lifo' = FALSE
            /\ relIdx' = <<>>
       ELSE /\ live' = Without(live, k)
            /\ lifo' = (lifo /\ k = Len(live))
            /\ relIdx' = <<live[k]>>
    /\ NoThrow
    /\ UNCHANGED <<program, start, strings, localsSize, lastRet, returned, reuse, prims>>
    /\ UNCHANGED labelVars

release == \E k \in 0..Len(live) : releaseLocal(k)

NextLocals ==
    \/ local
    \/ release
    \/ exit
    \/ finalize

SpecLocals == Init /\ [][NextLocals]_vars

(***************************************************************************)
(* BasicOpcodeBuilder: instructions that name a register                   *)
(***************************************************************************)
RegisterOpcode == {"SetLocal", "GetLocal", "SetComponentState"}

\* setLocal(pos), getLocal(pos), setComponentState(local): push(Op, pos)
registerRef(Op, pos) ==
    /\ Open /\ Room
    /\ lastOp' = Op
    /\ UNCHANGED outsideVars
    /\ program' = ProgramPush(program, Op, pos, 0, 0)
    /\ NoThrow
    /\ UNCHANGED <<start, strings, prims>>
    /\ UNCHANGED labelVars
    /\ UNCHANGED localVars

\* The register indexes callers pass: allocated ones and ones that are not.
RegisterIndexes == 0..MaxLocals

setLocal == \E pos \in RegisterIndexes : registerRef("SetLocal", pos)

getLocal == \E pos \in RegisterIndexes : registerRef("GetLocal", pos)

setComponentState == \E pos \in RegisterIndexes : registerRef("SetComponentState", pos)

NextRegisters ==
    \/ local
    \/ release
    \/ setLocal
    \/ getLocal
    \/ setComponentState
    \/ finalize

SpecRegisters == Init /\ [][NextRegisters]_vars

(***************************************************************************)
(* OpcodeBuilder.invokeComponent                                           *)
(***************************************************************************)
MaxComponents == 2   \* invokeComponent calls over one run

\* this.block(block): 0 for no block, else the block's handle in the
\* constant pool; blocks are numbered from 1 and handled by their number.
BlockOperand(block) == IF block = 0 THEN 0 ELSE block

\* compileComponentArgs(hash, this): one expression compiled per named
\* argument, each here a single instruction, and their count returned.
ComponentArgs(count) == [k \in 1..count |-> Instr("GetVariable", k, 0, 0)]

\* A bug invokeComponent could have: the transaction committed before the
\* layout is invoked.
ComponentProtocol_commitEarly(state, block, inverse, count) ==
    <<Instr("SetComponentState", state, 0, 0),
      Instr("PushBlock", BlockOperand(block), 0, 0),
      Instr("PushBlock", BlockOperand(inverse), 0, 0)>>
    \o ComponentArgs(count) \o
    <<Instr("PushDynamicScope", 0, 0, 0),
      Instr("PushComponentArgs", 0, count, 0),
      Instr("CreateComponent", 1, state, 0),
      Instr("RegisterComponentDestructor", state, 0, 0),
      Instr("BeginComponentTransaction", 0, 0, 0),
      Instr("CommitComponentTransaction", 0, 0, 0),
      Instr("GetComponentSelf", state, 0, 0),
      Instr("GetComponentLayout", state, 0, 0),
      Instr("InvokeDynamic", 0, 0, 0),
      Instr("DidCreateElement", state, 0, 0),
      Instr("DidRenderLayout", state, 0, 0),
      Instr("PopScope", 0, 0, 0),
      Instr("PopDynamicScope", 0, 0, 0)>>

\* A bug invokeComponent could have: the dynamic scope popped twice, once
\* in place of the scope.
ComponentProtocol_popTwice(state, block, inverse, count) ==
    <<Instr("SetComponentState", state, 0, 0),
      Instr("PushBlock", BlockOperand(block), 0, 0),
      Instr("PushBlock", BlockOperand(inverse), 0, 0)>>
    \o ComponentArgs(count) \o
    <<Instr("PushDynamicScope", 0, 0, 0),
      Instr("PushComponentArgs", 0, count, 0),
      Instr("CreateComponent", 1, state, 0),
      Instr("RegisterComponentDestructor", state, 0, 0),
      Instr("BeginComponentTransaction", 0, 0, 0),
      Instr("GetComponentSelf", state, 0, 0),
      Instr("GetComponentLayout", state, 0, 0),
      Instr("InvokeDynamic", 0, 0, 0),
      Instr("DidCreateElement", state, 0, 0),
      Instr("DidRenderLayout", state, 0, 0),
      Instr("PopDynamicScope", 0, 0, 0),
      Instr("PopDynamicScope", 0, 0, 0),
      Instr("CommitComponentTransaction", 0, 0, 0)>>

\* The instructions of one invokeComponent call, in the order of its
\* statements.  The operands that are handles of opaque constants (the
\* slots dict, the layout invoker) are written 0.
ComponentProtocol(state, block, inverse, count) ==
    <<Instr("SetComponentState", state, 0, 0),
      Instr("PushBlock", BlockOperand(block), 0, 0),
      Instr("PushBlock", BlockOperand(inverse), 0, 0)>>
    \o ComponentArgs(count) \o
    <<Instr("PushDynamicScope", 0, 0, 0),
      Instr("PushComponentArgs", 0, count, 0),
      Instr("CreateComponent", 1, state, 0),
      Instr("RegisterComponentDestructor", state, 0, 0),
      Instr("BeginComponentTransaction", 0, 0, 0),
      Instr("GetComponentSelf", state, 0, 0),
      Instr("GetComponentLayout", state, 0, 0),
      Instr("InvokeDynamic", 0, 0, 0),
      Instr("DidCreateElement", state, 0, 0),
      Instr("DidRenderLayout", state, 0, 0),
      Instr("PopScope", 0, 0, 0),
      Instr("PopDynamicScope", 0, 0, 0),
      Instr("CommitComponentTransaction", 0, 0, 0)>>

\* let state = this.local(); ...the protocol...; this.releaseLocal()
invokeComponentWith(block, inverse, count) ==
    /\ Open
    /\ Len(invoked) < MaxComponents
    /\ lastOp' = "invokeComponent"
    /\ UNCHANGED <<frames, helped, byHelpers>>
    /\ UNCHANGED sharedVars
    /\ UNCHANGED vmVars
    /\ UNCHANGED domVars
    /\ program' = program \o
          ComponentProtocol(PostIncrement(locals).ret, block, inverse, count)
    /\ invoked' = Append(invoked,
          [at |-> ProgramNext(program), len |-> Len(program') - Len(program),
           state |-> PostIncrement(locals).ret,
           block |-> block, inverse |-> inverse, count |-> count])
    /\ locals' = PostIncrement(locals).val - 1
    /\ localsSize' = LocalsSizeAfter(localsSize, PostIncrement(locals).val)
    /\ lastRet' = PostIncrement(locals).ret
    /\ returned' = returned \cup {lastRet'}
    /\ reuse' = (lastRet' \in returned)
    /\ highWater' = Max(highWater, PostIncrement(locals).val)
    /\ relIdx' = <<lastRet'>>
    /\ NoThrow
    /\ UNCHANGED <<start, strings, live, lifo, prims>>
    /\ UNCHANGED labelVars

\* The blocks and the hash an invocation is compiled with, as <<block,
\* inverse, number of named arguments>>, 0 for no block: a bare invocation,
\* one with a default block and a named argument, one with both blocks.
ComponentInputs == {<<0, 0, 0>>, <<1, 0, 1>>, <<1, 2, 0>>}

invokeComponent ==
    \E in \in ComponentInputs : invokeComponentWith(in[1], in[2], in[3])

\* The register a component's state goes to depends on the registers its
\* caller holds: local() and releaseLocal() around the invocations.
releaseNewest ==
    /\ live # <<>>
    /\ releaseLocal(Len(live))

NextComponents ==
    \/ local
    \/ releaseNewest
    \/ invokeComponent
    \/ finalize

SpecComponents == Init /\ [][NextComponents]_vars

(***************************************************************************)
(* BasicOpcodeBuilder.invokeStatic                                         *)
(***************************************************************************)
MaxParams == 2       \* the most block parameters a block declares
MaxArgs == 3         \* the most arguments an invocation passes

\* An argument of the call after the block: a number (numArgs), or a
\* callback, given by the instructions it pushes when it is called.
NumArg(n) == [t |-> "number", n |-> n, code |-> <<>>]
Callback(code) == [t |-> "function", n |-> 0, code |-> code]

\* The callback that compiles argument i: b => b.getVariable(...)
ArgCallback(i) == Callback(<<Instr("GetVariable", i, 0, 0)>>)

\* A block: its handle in the constant pool and the symbols of its block
\* parameters (_block.symbolTable.parameters).
Block(handle, paramSize) ==
    [handle |-> handle, parameters |-> [i \in 1..paramSize |-> i]]

\* Math.min
Min(a, b) == IF a < b THEN a ELSE b

\* argSize === 1 && typeof arguments[1] === 'number'
OnStack(args) == Len(args) = 1 /\ args[1].t = "number"

\* argSize after the if: Math.min(paramSize, ...)
ArgSize(paramSize, args) ==
    IF OnStack(args) THEN Min(paramSize, args[1].n) ELSE Min(paramSize, Len(args))

\* excess: Math.max(arguments[1] - paramSize, 0), 0 in callback mode
Excess(paramSize, args) ==
    IF OnStack(args) THEN Max(args[1].n - paramSize, 0) ELSE 0

\* for (let i=0; i<excess; i++) this.pop()
Pops(excess) == [i \in 1..excess |-> Instr("Pop", 0, 0, 0)]

\* A bug the binding loop could have: the parameters bound from the first
\* to the last.
RECURSIVE BindArgs_ascending(_, _, _, _)
BindArgs_ascending(i, parameters, args, onStack) ==
    IF i < 0 THEN <<>>
    ELSE BindArgs_ascending(i - 1, parameters, args, onStack)
         \o (IF onStack THEN <<>> ELSE args[i + 1].code)
         \o <<Instr("SetVariable", parameters[i + 1], 0, 0)>>

\* for (let i=argSize-1; i>=0; i--) { if (!onStack) arguments[i+1](this);
\* this.setVariable(parameters[i]) }: what the loop pushes from i down.
\* arguments[0] is the block, so arguments[i+1] is args[i+1] counted from 1,
\* as parameters[i] is parameters[i+1].
RECURSIVE BindArgs(_, _, _, _)
BindArgs(i, parameters, args, onStack) ==
    IF i < 0 THEN <<>>
    ELSE (IF onStack THEN <<>> ELSE args[i + 1].code)
         \o <<Instr("SetVariable", parameters[i + 1], 0, 0)>>
         \o BindArgs(i - 1, parameters, args, onStack)

\* A bug invokeStatic could have: the scope popped whenever the block has
\* parameters, pushed only when one is bound.
InvokeStaticCode_popByParams(block, args) ==
    Pops(Excess(Len(block.parameters), args))
    \o (IF ArgSize(Len(block.parameters), args) # 0
        THEN <<Instr("ChildScope", 0, 0, 0)>>
             \o BindArgs(ArgSize(Len(block.parameters), args) - 1,
                         block.parameters, args, OnStack(args))
        ELSE <<>>)
    \o <<Instr("InvokeStatic", block.handle, 0, 0)>>
    \o (IF Len(block.parameters) # 0
        THEN <<Instr("PopScope", 0, 0, 0)>> ELSE <<>>)

\* Everything one invokeStatic(_block, ...args) call pushes.
InvokeStaticCode(block, args) ==
    Pops(Excess(Len(block.parameters), args))
    \o (IF ArgSize(Len(block.parameters), args) # 0
        THEN <<Instr("ChildScope", 0, 0, 0)>>
             \o BindArgs(ArgSize(Len(block.parameters), args) - 1,
                         block.parameters, args, OnStack(args))
        ELSE <<>>)
    \o <<Instr("InvokeStatic", block.handle, 0, 0)>>
    \o (IF ArgSize(Len(block.parameters), args) # 0
        THEN <<Instr("PopScope", 0, 0, 0)>> ELSE <<>>)

invokeStaticWith(block, args) ==
    /\ Open /\ Room
    /\ lastOp' = "invokeStatic"
    /\ program' = program \o InvokeStaticCode(block, args)
    /\ statics' = Append(statics,
          [at |-> ProgramNext(program), len |-> Len(program') - Len(program),
           block |-> block, args |-> args])
    /\ NoThrow
    /\ UNCHANGED <<invoked, builders, frames, helped, byHelpers>>
    /\ UNCHANGED vmVars
    /\ UNCHANGED domVars
    /\ UNCHANGED <<start, strings, prims>>
    /\ UNCHANGED labelVars
    /\ UNCHANGED localVars

\* The blocks invoked: none to MaxParams block parameters.
Blocks == {Block(1 + p, p) : p \in 0..MaxParams}

\* invokeStatic(block, numArgs): the arguments are on the operand stack.
invokeStaticOnStack ==
    \E block \in Blocks : \E n \in 0..MaxArgs :
        invokeStaticWith(block, <<NumArg(n)>>)

\* invokeStatic(block, ...callbacks): each argument is compiled by its
\* callback.
invokeStaticCallbacks ==
    \E block \in Blocks : \E n \in 0..MaxArgs :
        invokeStaticWith(block, [i \in 1..n |-> ArgCallback(i - 1)])

NextStatic ==
    \/ invokeStaticOnStack
    \/ invokeStaticCallbacks
    \/ finalize

SpecStatic == Init /\ [][NextStatic]_vars

(***************************************************************************)
(* Several builders on one program.  A builder constructed on the program  *)
(* of another (program = env.program) has its own start, locals and        *)
(* _localsSize; the program is the one object they all push to.            *)
(***************************************************************************)
MaxBuilders == 2     \* builders constructed after the first

\* The builder's own fields after the constructor:
\* this.start = program.next, locals = 0, _localsSize = 0
NewBuilder(p) ==
    [start |-> ProgramNext(p), locals |-> 0, localsSize |-> 0, status |-> "open"]

\* What the calls of the other builders leave alone: the fields of this one.
ownVars == <<start, strings, status, fault, lastOp, prims, invoked, statics,
             frames, helped, byHelpers, labelVars, localVars, vmVars, domVars>>

\* new OpcodeBuilder(env, meta, program): super(...) sets start and
\* reserves the ReserveLocals slot.
OpcodeBuilder ==
    /\ Len(builders) < MaxBuilders
    /\ builders' = Append(builders, NewBuilder(program))
    /\ program' = ProgramPush(program, "ReserveLocals", 0, 0, 0)
    /\ UNCHANGED ownVars

\* local(), called on builder b.  The other builders count one register at
\* most, the first one up to MaxLocals.
localOf(b) ==
    /\ builders[b].status = "open"
    /\ builders[b].locals = 0
    /\ builders' = [builders EXCEPT
          ![b].locals = PostIncrement(@).val,
          ![b].localsSize =
              LocalsSizeAfter(@, PostIncrement(builders[b].locals).val)]
    /\ UNCHANGED program
    /\ UNCHANGED ownVars

\* setLocal(pos), called on builder b: push(Op.SetLocal, pos)
setLocalOf(b) ==
    /\ builders[b].status = "open"
    /\ Room
    /\ \E pos \in 0..builders[b].locals :
          program' = ProgramPush(program, "SetLocal", pos, 0, 0)
    /\ UNCHANGED builders
    /\ UNCHANGED ownVars

\* A bug finalize could have: the first slot of the program written instead
\* of the one at the builder's own start.
finalizeOf_first(b) ==
    /\ builders[b].status = "open"
    /\ program' = ProgramPush(
          ProgramSet(program, 0, "ReserveLocals", builders[b].localsSize, 0, 0),
          "ReleaseLocals", 0, 0, 0)
    /\ builders' = [builders EXCEPT ![b].status = "finalized"]
    /\ UNCHANGED ownVars

\* finalize(), called on builder b
finalizeOf(b) ==
    /\ builders[b].status = "open"
    /\ program' = ProgramPush(
          ProgramSet(program, builders[b].start, "ReserveLocals",
                     builders[b].localsSize, 0, 0),
          "ReleaseLocals", 0, 0, 0)
    /\ builders' = [builders EXCEPT ![b].status = "finalized"]
    /\ UNCHANGED ownVars

localOther == \E b \in 1..Len(builders) : localOf(b)

setLocalOther == \E b \in 1..Len(builders) : setLocalOf(b)

finalizeOther == \E b \in 1..Len(builders) : finalizeOf(b)

NextShared ==
    \/ OpcodeBuilder
    \/ localOther
    \/ setLocalOther
    \/ finalizeOther
    \/ local
    \/ finalize

SpecShared == Init /\ [][NextShared]_vars

(***************************************************************************)
(* BasicOpcodeBuilder: primitive                                           *)
(***************************************************************************)
TwoPow30 == 1073741824

\* A literal: its kind, and its number (n) or its text (s).
Lit(t, n, str) == [t |-> t, n |-> n, s |-> str]

\* typeof
TypeOf(v) ==
    CASE v.t = "null" -> "object"
      [] v.t = "object" -> "object"
      [] OTHER -> v.t

\* Constants.string: the handle of a string, the same for the same text;
\* handle 0 is no string.
StringHandle(pool, str) ==
    IF \E i \in 1..Len(pool) : pool[i] = str
    THEN CHOOSE i \in 1..Len(pool) : pool[i] = str
    ELSE Len(pool) + 1

StringPool(pool, str) ==
    IF \E i \in 1..Len(pool) : pool[i] = str THEN pool ELSE Append(pool, str)

\* 32-bit two's complement arithmetic on integers in -2^31 .. 2^31 - 1.
\* The low 31 bits of x, as a natural number.
Low31(x) == IF x < 0 THEN (x + TwoPow30) + TwoPow30 ELSE x

RECURSIVE OrBits(_, _)
OrBits(a, b) ==
    IF a = 0 THEN b
    ELSE IF b = 0 THEN a
    ELSE (IF a % 2 = 1 \/ b % 2 = 1 THEN 1 ELSE 0) + 2 * OrBits(a \div 2, b \div 2)

\* a | b
Or32(a, b) ==
    LET low == OrBits(Low31(a), Low31(b))
    IN  IF a < 0 \/ b < 0 THEN (low - TwoPow30) - TwoPow30 ELSE low

\* flag << 30
Shl30(flag) ==
    IF flag % 4 >= 2 THEN ((flag % 4) - 4) * TwoPow30 ELSE (flag % 4) * TwoPow30

\* The flag and the payload the switch picks for a literal of an accepted
\* typeof; handle is this.string(v) for a string.
PrimitiveFlag(v) ==
    CASE TypeOf(v) = "number" -> 0
      [] TypeOf(v) = "string" -> 1
      [] OTHER -> 2

PrimitivePayload(v, handle) ==
    CASE TypeOf(v) = "number" -> v.n
      [] TypeOf(v) = "string" -> handle
      [] TypeOf(v) = "boolean" -> v.n
      [] TypeOf(v) = "object" -> 2
      [] OTHER -> 3

\* (flag << 30) | primitive
PrimitiveOperand(v, handle) ==
    Or32(Shl30(PrimitiveFlag(v)), PrimitivePayload(v, handle))

primitiveOf(v) ==
    /\ Open /\ Room
    /\ lastOp' = "primitive"
    /\ UNCHANGED outsideVars
    /\ IF TypeOf(v) \notin {"number", "string", "boolean", "object", "undefined"}
       THEN /\ Throw("Invalid primitive passed to pushPrimitive")
            /\ UNCHANGED <<program, strings, prims>>
       ELSE /\ strings' = IF TypeOf(v) = "string" THEN StringPool(strings, v.s) ELSE strings
            /\ program' = ProgramPush(program, "Primitive",
                  PrimitiveOperand(v, StringHandle(strings, v.s)), 0, 0)
            /\ prims' = Append(prims, [at |-> ProgramNext(program), lit |-> v])
            /\ NoThrow
    /\ UNCHANGED start
    /\ UNCHANGED labelVars
    /\ UNCHANGED localVars

\* The literals primitive() is called with: numbers inside and outside the
\* 30-bit range, strings, the booleans, null, undefined, and two values of
\* no literal type.
Numbers ==
    {0, 1, 3, TwoPow30 - 1, TwoPow30, TwoPow30 + 1, (TwoPow30 - 1) + TwoPow30,
     0 - 1, 0 - TwoPow30, (0 - TwoPow30) - TwoPow30}

PrimInputs ==
    {Lit("number", n, "") : n \in Numbers}
    \cup {Lit("string", 0, str) : str \in {"a", "b"}}
    \cup {Lit("boolean", n, "") : n \in {0, 1}}
    \cup {Lit("null", 0, ""), Lit("undefined", 0, ""),
          Lit("object", 0, ""), Lit("function", 0, "")}

primitive == \E v \in PrimInputs : primitiveOf(v)

NextPrim ==
    \/ primitive
    \/ finalize

SpecPrim == Init /\ [][NextPrim]_vars

(***************************************************************************)
(* OpcodeBuilder.labelled, iter, unit.  A helper runs in two steps, with   *)
(* the caller's callback between them: its statements before the callback  *)
(* (open), and its statements after the callback has returned (close).     *)
(* Each is given as the program and the label table it leaves, and the     *)
(* references it reserved.                                                 *)
(***************************************************************************)
Ref(at, op, names) == [at |-> at, op |-> op, names |-> names]

\* A bug labelled could have: label('BEGIN') before enter('BEGIN', 'END').
LabelledOpen_labelFirst(p) ==
    LET L1 == Labels_label(NewLabels, "BEGIN", ProgramNext(p))
        p1 == ProgramPush(p, "Enter", 0, 0, 0)
        L2 == Labels_range(L1, ProgramCurrent(p1), "Enter", "BEGIN", "END")
    IN  [program |-> p1, labels |-> L2,
         refs |-> {Ref(ProgramCurrent(p1), "Enter", <<"BEGIN", "END">>)}]

\* startLabels(); enter('BEGIN', 'END'); label('BEGIN')
LabelledOpen(p) ==
    LET p1 == ProgramPush(p, "Enter", 0, 0, 0)
        L1 == Labels_range(NewLabels, ProgramCurrent(p1), "Enter", "BEGIN", "END")
        L2 == Labels_label(L1, "BEGIN", ProgramNext(p1))
    IN  [program |-> p1, labels |-> L2,
         refs |-> {Ref(ProgramCurrent(p1), "Enter", <<"BEGIN", "END">>)}]

\* label('END'); exit()
LabelledClose(p, L) ==
    LET L1 == Labels_label(L, "END", ProgramNext(p))
        p1 == ProgramPush(p, "Exit", 0, 0, 0)
    IN  [program |-> p1, labels |-> L1, refs |-> {}]

\* startLabels(); enterList('BEGIN', 'END'); label('ITER');
\* iterate('BREAK', 'BEGIN', 'END'); label('BEGIN')
IterOpen(p) ==
    LET p1 == ProgramPush(p, "EnterList", 0, 0, 0)
        L1 == Labels_range(NewLabels, ProgramCurrent(p1), "EnterList", "BEGIN", "END")
        L2 == Labels_label(L1, "ITER", ProgramNext(p1))
        p2 == ProgramPush(p1, "Iterate", 0, 0, 0)
        L3 == Labels_iter(L2, ProgramCurrent(p2), "BREAK", "BEGIN", "END")
        L4 == Labels_label(L3, "BEGIN", ProgramNext(p2))
    IN  [program |-> p2, labels |-> L4,
         refs |-> {Ref(ProgramCurrent(p1), "EnterList", <<"BEGIN", "END">>),
                   Ref(ProgramCurrent(p2), "Iterate", <<"BREAK", "BEGIN", "END">>)}]

\* A bug iter could have: the back-jump to the body, jump('BEGIN'), in
\* place of the jump to the Iterate instruction.
IterClose_jumpBegin(p, L) ==
    LET L1 == Labels_label(L, "END", ProgramNext(p))
        p1 == ProgramPush(p, "Exit", 0, 0, 0)
        p2 == ProgramPush(p1, "Jump", 0, 0, 0)
        L2 == Labels_jump(L1, ProgramCurrent(p2), "Jump", "BEGIN")
        L3 == Labels_label(L2, "BREAK", ProgramNext(p2))
        p3 == ProgramPush(p2, "ExitList", 0, 0, 0)
    IN  [program |-> p3, labels |-> L3,
         refs |-> {Ref(ProgramCurrent(p2), "Jump", <<"BEGIN">>)}]

\* An iter that emits no Exit after the callback's instructions.
IterClose_noExit(p, L) ==
    LET L1 == Labels_label(L, "END", ProgramNext(p))
        p2 == ProgramPush(p, "Jump", 0, 0, 0)
        L2 == Labels_jump(L1, ProgramCurrent(p2), "Jump", "ITER")
        L3 == Labels_label(L2, "BREAK", ProgramNext(p2))
        p3 == ProgramPush(p2, "ExitList", 0, 0, 0)
    IN  [program |-> p3, labels |-> L3,
         refs |-> {Ref(ProgramCurrent(p2), "Jump", <<"ITER">>)}]

\* label('END'); exit(); jump('ITER'); label('BREAK'); exitList()
IterClose(p, L) ==
    LET L1 == Labels_label(L, "END", ProgramNext(p))
        p1 == ProgramPush(p, "Exit", 0, 0, 0)
        p2 == ProgramPush(p1, "Jump", 0, 0, 0)
        L2 == Labels_jump(L1, ProgramCurrent(p2), "Jump", "ITER")
        L3 == Labels_label(L2, "BREAK", ProgramNext(p2))
        p3 == ProgramPush(p2, "ExitList", 0, 0, 0)
    IN  [program |-> p3, labels |-> L3,
         refs |-> {Ref(ProgramCurrent(p2), "Jump", <<"ITER">>)}]

\* startLabels()
UnitOpen(p) == [program |-> p, labels |-> NewLabels, refs |-> {}]

\* unit has no statement between the callback and stopLabels()
UnitClose(p, L) == [program |-> p, labels |-> L, refs |-> {}]

\* A bug stopLabels could have: the scope popped and never patched.
StopLabels_unpatched(stack, p) == [stack |-> Pop(stack), program |-> p]

\* stopLabels() with a scope open: pop, then patch the scope popped.
StopLabels(stack, p) ==
    [stack |-> Pop(stack), program |-> Labels_patch(stack[Len(stack)], p)]

\* The helper up to its call of the callback.
openHelper(kind, o) ==
    /\ Open
    /\ Len(labelsStack) + Len(closedAll) < MaxScopes
    /\ lastOp' = kind
    /\ program' = o.program
    /\ labelsStack' = Append(labelsStack, o.labels)
    /\ placed' = Append(placed, o.labels.labels)
    /\ refs' = Append(refs, o.refs)
    /\ frames' = Append(frames,
          [kind |-> kind, depth |-> Len(labelsStack),
           at |-> ProgramNext(program), body |-> ProgramNext(o.program)])
    /\ byHelpers' = byHelpers + (Len(o.program) - Len(program))
    /\ NoThrow
    /\ UNCHANGED <<start, strings, closedAll, prims, invoked, helped>>
    /\ UNCHANGED sharedVars
    /\ UNCHANGED localVars
    /\ UNCHANGED vmVars
    /\ UNCHANGED domVars

\* The helper from the return of its callback.  The label calls go to the
\* scope on top of the stack, which is the helper's own when the callback
\* has closed what it opened.
closeHelper(kind, c) ==
    /\ Open
    /\ frames # <<>>
    /\ frames[Len(frames)].kind = kind
    /\ lastOp' = kind
    /\ IF NullOnEmpty(labelsStack)
       THEN /\ Throw(IF kind = "unit" THEN "unbalanced push and pop labels"
                     ELSE "bug: not in a label stack")
            /\ UNCHANGED <<program, labelsStack, placed, refs, closedAll, helped,
                           byHelpers>>
       ELSE /\ program' =
                  StopLabels([labelsStack EXCEPT ![Current(labelsStack)] = c.labels],
                             c.program).program
            /\ labelsStack' =
                  StopLabels([labelsStack EXCEPT ![Current(labelsStack)] = c.labels],
                             c.program).stack
            /\ closedAll' = Append(closedAll,
                  [depth |-> Len(labelsStack), placed |-> c.labels.labels,
                   refs |-> refs[Len(refs)] \cup c.refs])
            /\ placed' = Pop(placed)
            /\ refs' = Pop(refs)
            /\ helped' = Append(helped,
                  [kind |-> kind,
                   depth |-> frames[Len(frames)].depth,
                   at |-> frames[Len(frames)].at,
                   body |-> frames[Len(frames)].body,
                   bodyEnd |-> ProgramNext(program),
                   end |-> ProgramNext(c.program),
                   depthAfter |-> Len(labelsStack'),
                   scope |-> Len(closedAll) + 1])
            /\ byHelpers' = byHelpers + (Len(c.program) - Len(program))
            /\ NoThrow
    /\ frames' = Pop(frames)
    /\ UNCHANGED <<start, strings, prims, invoked>>
    /\ UNCHANGED sharedVars
    /\ UNCHANGED localVars
    /\ UNCHANGED vmVars
    /\ UNCHANGED domVars

labelled_open == openHelper("labelled", LabelledOpen(program))

labelled_close ==
    closeHelper("labelled",
        LabelledClose(program, labelsStack[Current(labelsStack)]))

iter_open == openHelper("iter", IterOpen(program))

iter_close ==
    closeHelper("iter", IterClose(program, labelsStack[Current(labelsStack)]))

unit_open == openHelper("unit", UnitOpen(program))

unit_close ==
    closeHelper("unit", UnitClose(program, labelsStack[Current(labelsStack)]))

\* What a callback does with the builder it is handed: it emits content,
\* jumps to the labels it was given, and calls the helpers in turn.
\* text(text): push(Op.Text, this.constants.string(text))
text ==
    /\ Open /\ Room
    /\ lastOp' = "Text"
    /\ UNCHANGED outsideVars
    /\ strings' = StringPool(strings, "a")
    /\ program' = ProgramPush(program, "Text", StringHandle(strings, "a"), 0, 0)
    /\ NoThrow
    /\ UNCHANGED <<start, prims>>
    /\ UNCHANGED labelVars
    /\ UNCHANGED localVars

jumpUnlessEnd ==
    /\ frames # <<>>
    /\ jumpTo("JumpUnless", "END")

NextHelpers ==
    \/ labelled_open
    \/ labelled_close
    \/ iter_open
    \/ iter_close
    \/ unit_open
    \/ unit_close
    \/ text
    \/ jumpUnlessEnd

SpecHelpers == Init /\ [][NextHelpers]_vars

(***************************************************************************)
(* The VM on the instructions of one iter call: a program counter, the     *)
(* iterator over a keyed sequence, and the fetch-dispatch loop.  Iterate   *)
(* takes the next item and goes on into the body, or, the sequence         *)
(* exhausted, goes to its break target; Jump goes to its target; every     *)
(* other instruction of a body goes on to the next.                        *)
(***************************************************************************)
MaxItems == 2        \* items of the keyed sequence

\* The keyed sequences of n items, by key.
KeyedSequences == {[k \in 1..n |-> k] : n \in 0..MaxItems}

\* The iter call whose instructions the VM runs.
TheIter == CHOOSE h \in {helped[k] : k \in 1..Len(helped)} : h.kind = "iter"

HasIter(hs) == \E k \in 1..Len(hs) : hs[k].kind = "iter"

\* The program counter after the instruction i at offset at.
NextPc(i, at, more) ==
    CASE i.op = "Iterate" -> IF more THEN at + InstrWidth ELSE i.op1
      [] i.op = "Jump" -> i.op1
      [] OTHER -> at + InstrWidth

\* The regions after the instruction i: EnterList enters the list's region,
\* an Iterate that has an item a fresh region for the item, Enter a region
\* of its own; Exit and ExitList leave the innermost one.
NextRegions(i, rs, more) ==
    CASE i.op = "EnterList" -> Append(rs, "list")
      [] i.op = "Iterate" -> IF more THEN Append(rs, "item") ELSE rs
      [] i.op = "Enter" -> Append(rs, "block")
      [] i.op \in {"Exit", "ExitList"} -> Pop(rs)
      [] OTHER -> rs

\* The VM is started on the EnterList of the iter call, the iterator put
\* on a keyed sequence of the caller.
execute ==
    /\ Open
    /\ frames = <<>>
    /\ HasIter(helped)
    /\ vm = "idle"
    /\ \E ks \in KeyedSequences :
          /\ items' = ks
          /\ iterator' = ks
    /\ vm' = "running"
    /\ pc' = TheIter.at
    /\ item' = 0
    /\ trace' = <<>>
    /\ regions' = <<>>
    /\ lastOp' = "execute"
    /\ UNCHANGED <<program, start, strings, status, fault, prims, invoked,
                   frames, helped, byHelpers>>
    /\ UNCHANGED sharedVars
    /\ UNCHANGED labelVars
    /\ UNCHANGED localVars
    /\ UNCHANGED domVars

\* One turn of the loop: the instruction at pc is executed.
vmStep ==
    /\ vm = "running"
    /\ LET i == ProgramAt(program, pc)
       IN  /\ trace' = Append(trace,
                 [at |-> pc,
                  item |-> IF i.op = "Iterate"
                           THEN (IF iterator # <<>> THEN Head(iterator) ELSE 0)
                           ELSE item,
                  regions |-> NextRegions(i, regions, iterator # <<>>)])
           /\ regions' = NextRegions(i, regions, iterator # <<>>)
           /\ item' = IF i.op = "Iterate"
                      THEN (IF iterator # <<>> THEN Head(iterator) ELSE 0)
                      ELSE item
           /\ iterator' = IF i.op = "Iterate" /\ iterator # <<>>
                          THEN Tail(iterator) ELSE iterator
           /\ pc' = NextPc(i, pc, iterator # <<>>)
           /\ vm' = IF pc' = TheIter.end THEN "halted" ELSE "running"
    /\ UNCHANGED <<program, start, strings, status, fault, lastOp, prims,
                   invoked, frames, helped, byHelpers, items>>
    /\ UNCHANGED sharedVars
    /\ UNCHANGED labelVars
    /\ UNCHANGED localVars
    /\ UNCHANGED domVars

\* The builder is called before the VM runs its program, not while.
building == vm = "idle"

\* iter, called once: the VM of this model has one iterator.
iterOnce ==
    /\ building
    /\ ~HasIter(frames)
    /\ ~HasIter(helped)
    /\ iter_open

iterReturn == building /\ iter_close

\* What the callback of iter emits: text, and regions made by labelled.
bodyText == building /\ text

bodyLabelled == building /\ labelled_open

bodyLabelledReturn == building /\ labelled_close

NextIter ==
    \/ iterOnce
    \/ iterReturn
    \/ bodyText
    \/ bodyLabelled
    \/ bodyLabelledReturn
    \/ execute
    \/ vmStep

\* The VM's loop is run to completion: a started run keeps taking turns.
SpecIter == Init /\ [][NextIter]_vars /\ WF_vars(vmStep)

(***************************************************************************)
(* Rendering into a DOM tree.  The templates, contexts and server output   *)
(* are those of the rehydration tests (src/unnamed/part_000); the          *)
(* rendering strategies themselves (the element builders) are not part of  *)
(* this repository's sources and follow the documented algorithm: a        *)
(* first-pass render that wraps every dynamic region in a pair of block    *)
(* markers, and a rehydrating pass that walks the existing nodes with a    *)
(* cursor.                                                                 *)
(***************************************************************************)
MaxTemplates == 13   \* the templates rendered, out of TemplateList

\* Template nodes: static text, {{content}}, an element (its class static
\* or class={{content}}), {{#if admin}}kids{{else}}alt{{/if}},
\* {{#each items key='id' as |item|}}kids{{/each}} and, inside it, {{item}},
\* {{#in-element remoteParent}}kids{{/in-element}} (or remoteChild).
StaticText(v) == [k |-> "text", v |-> v, a |-> "", kids |-> <<>>, alt |-> <<>>]

Curly == [k |-> "curly", v |-> "content", a |-> "", kids |-> <<>>, alt |-> <<>>]

Element(tag, class, kids) ==
    [k |-> "element", v |-> tag, a |-> class, kids |-> kids, alt |-> <<>>]

IfAdmin(kids, alt) == [k |-> "if", v |-> "admin", a |-> "", kids |-> kids, alt |-> alt]

ItemCurly == [k |-> "curly", v |-> "item", a |-> "", kids |-> <<>>, alt |-> <<>>]

InElement(target, kids) ==
    [k |-> "in-element", v |-> target, a |-> "", kids |-> kids, alt |-> <<>>]

EachItem(kids) == [k |-> "each", v |-> "items", a |-> "", kids |-> kids, alt |-> <<>>]

TemplateList ==
    << \* {{content}}
       <<Curly>>,
       \* {{content}} world
       <<Curly, StaticText(" world")>>,
       \* {{#if admin}}<div>hi admin</div>{{else}}<p>HAXOR</p>{{/if}}
       <<IfAdmin(<<Element("div", "", <<StaticText("hi admin")>>)>>,
                 <<Element("p", "", <<StaticText("HAXOR")>>)>>)>>,
       \* {{#if admin}}<div>hi admin</div>{{else}}<div>HAXOR{{content}}</div>{{/if}}
       <<IfAdmin(<<Element("div", "", <<StaticText("hi admin")>>)>>,
                 <<Element("div", "", <<StaticText("HAXOR"), Curly>>)>>)>>,
       \* <div class={{content}}>{{content}}</div>
       <<Element("div", "{{content}}", <<Curly>>)>>,
       \* {{#if admin}}<p>{{content}}</p>{{/if}}<p>end</p>
       <<IfAdmin(<<Element("p", "", <<Curly>>)>>, <<>>),
         Element("p", "", <<StaticText("end")>>)>>,
       \* <top>{{#if admin}}{{content}}{{else}}inside{{/if}}</top>{{#if admin}}<p>x</p>{{/if}}
       <<Element("top", "", <<IfAdmin(<<Curly>>, <<StaticText("inside")>>)>>),
         IfAdmin(<<Element("p", "", <<StaticText("x")>>)>>, <<>>)>>,
       \* {{#if admin}}<p>a</p>{{content}}<p>b</p>{{else}}<p>a</p>{{/if}}
       <<IfAdmin(<<Element("p", "", <<StaticText("a")>>), Curly,
                   Element("p", "", <<StaticText("b")>>)>>,
                 <<Element("p", "", <<StaticText("a")>>)>>)>>,
       \* <b>start</b>{{#if admin}}<div>a</div><p>b</p>{{else}}<span>a</span><p>b</p>{{/if}}<p>end</p>
       <<Element("b", "", <<StaticText("start")>>),
         IfAdmin(<<Element("div", "", <<StaticText("a")>>),
                   Element("p", "", <<StaticText("b")>>)>>,
                 <<Element("span", "", <<StaticText("a")>>),
                   Element("p", "", <<StaticText("b")>>)>>),
         Element("p", "", <<StaticText("end")>>)>>,
       \* <p>{{content}}</p>{{#if admin}}{{content}}{{/if}}
       <<Element("p", "", <<Curly>>), IfAdmin(<<Curly>>, <<>>)>>,
       \* {{#each items key='id' as |item|}}<p>{{item}}</p>{{/each}}
       <<EachItem(<<Element("p", "", <<ItemCurly>>)>>)>>,
       \* {{#if admin}}{{#each items key='id' as |item|}}<p>{{item}}</p>{{/each}}{{/if}}
       <<IfAdmin(<<EachItem(<<Element("p", "", <<ItemCurly>>)>>)>>, <<>>)>>,
       \* <outer>{{#in-element remoteParent}}<inner>{{#in-element remoteChild}}Wat Wat
       \* {{/in-element}}</inner>{{/in-element}}</outer>
       <<Element("outer", "",
                 <<InElement("remoteParent",
                             <<Element("inner", "",
                                       <<InElement("remoteChild",
                                                   <<StaticText("Wat Wat")>>)>>)>>)>>)>>,
       \* <p>{{content}}</p>
       <<Element("p", "", <<Curly>>)>> >>

Templates == {TemplateList[i] : i \in 1..MaxTemplates}

Contents == {"", "hello", "goodbye"}

MaxListItems == 2     \* the longest list of items

\* The item at place i of a list: its key and what {{item}} shows.
ItemsAt(i) == {[key |-> i, value |-> "a"], [key |-> i, value |-> "b"],
               [key |-> i + MaxListItems, value |-> "a"]}

Lists ==
    UNION {{l \in [1..n -> UNION {ItemsAt(i) : i \in 1..n}] :
               \A i \in 1..n : l[i] \in ItemsAt(i)} : n \in 0..MaxListItems}

\* t, or a node under it, is an {{#each}} or an {{#if}}.
RECURSIVE Uses(_, _)
Uses(ts, k) ==
    \E i \in 1..Len(ts) : ts[i].k = k \/ Uses(ts[i].kids, k) \/ Uses(ts[i].alt, k)

Contexts == [content : Contents, admin : BOOLEAN, items : {<<>>}, item : {""}]

\* The contexts a template is rendered with: a list for the template that
\* iterates, content and admin for the others.
ContextsFor(T) ==
    IF Uses(T, "each")
    THEN [content : {""}, admin : IF Uses(T, "if") THEN BOOLEAN ELSE {TRUE},
          items : Lists, item : {""}]
    ELSE IF Uses(T, "in-element")
    THEN [content : {""}, admin : {TRUE}, items : {<<>>}, item : {""}]
    ELSE Contexts

\* DOM nodes.  id is the node's identity: its place in the tree the server
\* sent, NewNode for a node made by the client.
NewNode == <<>>

Text(v, id) == [k |-> "text", v |-> v, a |-> "", d |-> 0, kids |-> <<>>, id |-> id]

Comment(v, id) == [k |-> "comment", v |-> v, a |-> "", d |-> 0, kids |-> <<>>, id |-> id]

ElementNode(tag, class, kids, id) ==
    [k |-> "element", v |-> tag, a |-> class, d |-> 0, kids |-> kids, id |-> id]

\* <!--%+b:d%-->, <!--%-b:d%--> and <!--% %-->
OpenBlockMarker(d, id) == [Comment("%+b%", id) EXCEPT !.d = d]

CloseBlockMarker(d, id) == [Comment("%-b%", id) EXCEPT !.d = d]

EmptyMarker(id) == Comment("% %", id)

IsText(n) == n.k = "text"

IsComment(n) == n.k = "comment"

IsOpenBlock(n, d) == IsComment(n) /\ n.v = "%+b%" /\ n.d = d

IsCloseBlock(n, d) == IsComment(n) /\ n.v = "%-b%" /\ n.d = d

IsEmpty(n) == IsComment(n) /\ n.v = "% %"

IsMarker(n) == IsComment(n) /\ n.v \in {"%+b%", "%-b%", "% %"}

IsElement(n, tag) == n.k = "element" /\ n.v = tag

ClassOf(t, C) == IF t.a = "{{content}}" THEN C.content ELSE t.a

Branch(t, C) == IF C.admin THEN t.kids ELSE t.alt

\* The Create strategy.  serialize: the output is sent to a client that
\* rehydrates it, so every dynamic region gets its pair of markers and an
\* empty text its placeholder; at is the identity of the parent.
RECURSIVE CreateAll(_, _, _, _, _, _)
\* Items whose regions are entered with a start marker and never ended.
RECURSIVE CreateItems_unclosed(_, _, _, _, _, _, _)
CreateItems_unclosed(its, t, C, d, serialize, at, out) ==
    IF its = <<>> THEN out
    ELSE LET opened == IF serialize
                       THEN Append(out, OpenBlockMarker(d, Append(at, Len(out) + 1)))
                       ELSE out
         IN  CreateItems_unclosed(Tail(its), t, C, d, serialize, at,
                 CreateAll(t.kids, [C EXCEPT !.item = Head(its).value], d + 1,
                           serialize, at, opened))

\* The items of a list, each a region of its own at depth d.
RECURSIVE CreateItems(_, _, _, _, _, _, _)
CreateItems(its, t, C, d, serialize, at, out) ==
    IF its = <<>> THEN out
    ELSE LET opened == IF serialize
                       THEN Append(out, OpenBlockMarker(d, Append(at, Len(out) + 1)))
                       ELSE out
             body == CreateAll(t.kids, [C EXCEPT !.item = Head(its).value], d + 1,
                               serialize, at, opened)
             closed == IF serialize
                       THEN Append(body, CloseBlockMarker(d, Append(at, Len(body) + 1)))
                       ELSE body
         IN  CreateItems(Tail(its), t, C, d, serialize, at, closed)

CreateOne(t, C, d, serialize, at, out) ==
    LET id(n) == IF serialize THEN Append(at, Len(out) + n) ELSE NewNode
        value == Text(C[t.v], id(2))
    IN  CASE t.k = "text" -> Append(out, Text(t.v, id(1)))
          [] t.k = "curly" ->
               IF serialize
               THEN out \o <<OpenBlockMarker(d, id(1)),
                             IF C[t.v] = "" THEN EmptyMarker(id(2)) ELSE value,
                             CloseBlockMarker(d, id(3))>>
               ELSE Append(out, Text(C[t.v], NewNode))
          [] t.k = "element" ->
               Append(out, ElementNode(t.v, ClassOf(t, C),
                                       CreateAll(t.kids, C, d, serialize, id(1), <<>>),
                                       id(1)))
          [] t.k = "if" ->
               LET opened == IF serialize
                             THEN Append(out, OpenBlockMarker(d, id(1)))
                             ELSE out
                   body == IF Branch(t, C) = <<>>
                           THEN Append(opened,
                                       Comment("", IF serialize
                                                   THEN Append(at, Len(opened) + 1)
                                                   ELSE NewNode))
                           ELSE CreateAll(Branch(t, C), C, d + 1, serialize, at, opened)
               IN  IF serialize
                   THEN Append(body, CloseBlockMarker(d, Append(at, Len(body) + 1)))
                   ELSE body
          [] t.k = "each" ->
               \* the block of the statement, in it <!----> for no item or
               \* the region of the list with the regions of its items
               IF C.items = <<>>
               THEN IF serialize
                    THEN out \o <<OpenBlockMarker(d, id(1)), Comment("", id(2)),
                                  CloseBlockMarker(d, id(3))>>
                    ELSE Append(out, Comment("", NewNode))
               ELSE IF serialize
               THEN LET listed == CreateItems(C.items, t, C, d + 2, TRUE, at,
                                              out \o <<OpenBlockMarker(d, id(1)),
                                                       OpenBlockMarker(d + 1, id(2))>>)
                    IN  listed \o
                        <<CloseBlockMarker(d + 1, Append(at, Len(listed) + 1)),
                          CloseBlockMarker(d, Append(at, Len(listed) + 2))>>
               ELSE CreateItems(C.items, t, C, d + 2, FALSE, at, out)
          [] t.k = "in-element" ->
               \* the block of the statement holds <!---->, the body goes
               \* to the remote element
               IF serialize
               THEN out \o <<OpenBlockMarker(d, id(1)), Comment("", id(2)),
                             CloseBlockMarker(d, id(3))>>
               ELSE Append(out, Comment("", NewNode))

CreateAll(ts, C, d, serialize, at, out) ==
    IF ts = <<>> THEN out
    ELSE CreateAll(Tail(ts), C, d, serialize, at,
                   CreateOne(Head(ts), C, d, serialize, at, out))

Targets == {"remoteParent", "remoteChild"}

\* The identity of a remote element, the parent of its children's.
RemoteId(target) == IF target = "remoteParent" THEN <<-1>> ELSE <<-2>>

\* The {{#in-element target}} of ts and the depth of its block, <<>> when
\* the render of ts meets none.
RECURSIVE FindInElement(_, _, _, _)
FindInElement(ts, C, target, d) ==
    IF ts = <<>> THEN <<>>
    ELSE LET t == Head(ts)
             under == CASE t.k = "in-element" ->
                             IF t.v = target THEN <<t, d>>
                             ELSE FindInElement(t.kids, C, target, d + 2)
                        [] t.k = "element" -> FindInElement(t.kids, C, target, d)
                        [] t.k = "if" -> FindInElement(Branch(t, C), C, target, d + 1)
                        [] OTHER -> <<>>
         IN  IF under # <<>> THEN under ELSE FindInElement(Tail(ts), C, target, d)

\* What the Create strategy puts into a remote element: the body of its
\* {{#in-element}}, found == <<t, d>>, a region of its own.
CreateBody(found, C, serialize, at) ==
    IF found = <<>> THEN <<>>
    ELSE IF serialize
    THEN LET body == CreateAll(found[1].kids, C, found[2] + 2, TRUE, at,
                               <<OpenBlockMarker(found[2] + 1, Append(at, 1))>>)
         IN  Append(body, CloseBlockMarker(found[2] + 1, Append(at, Len(body) + 1)))
    ELSE CreateAll(found[1].kids, C, found[2] + 2, FALSE, at, <<>>)

CreateRemote(T, C, serialize, target) ==
    CreateBody(FindInElement(T, C, target, 1), C, serialize, RemoteId(target))

CreateRemotes(T, C, serialize) ==
    [target \in Targets |-> CreateRemote(T, C, serialize, target)]

\* The whole template is block 0.
Create(T, C, serialize) ==
    IF serialize
    THEN LET body == CreateAll(T, C, 1, TRUE, <<>>, <<OpenBlockMarker(0, <<1>>)>>)
         IN  Append(body, CloseBlockMarker(0, <<Len(body) + 1>>))
    ELSE CreateAll(T, C, 1, FALSE, <<>>, <<>>)

\* The Rehydrate strategy.  One cursor per element rendered into:
\*   cand      the existing nodes from the candidate on, <<>> while the
\*             cursor has none (nothing left, or rehydration abandoned)
\*   next      while abandoned: the existing nodes new ones are put before
\*   out       the children of the element as far as rendered
\*   open      depth of the innermost region entered at its start marker
\*   starting  block depth when the cursor was made
\*   remotes   the children of the remote elements
Cursor(cand, d, removedSoFar, mismatchSoFar, eventsSoFar, targets) ==
    [cand |-> cand, next |-> <<>>, out |-> <<>>, open |-> d - 1, starting |-> d,
     removed |-> removedSoFar, mismatch |-> mismatchSoFar, events |-> eventsSoFar,
     remotes |-> targets]

\* What the pass did to the existing node id, the node the cursor is at
\* afterwards and what it added to the removed-node count.
Event(ev, id, was, now, rest, counted) ==
    [ev |-> ev, id |-> id, was |-> was, now |-> now,
     cursor |-> IF rest = <<>> THEN NewNode ELSE Head(rest).id,
     counted |-> counted]

\* A count that takes in the comment nodes.
Counted_comments(n) == 1

\* rehydrationStats.clearedNodes holds no comment node.
Counted(n) == IF IsComment(n) THEN 0 ELSE 1

\* A count of the swept nodes that takes in the comment nodes.
CountedIn_comments(ns) == Len(ns)

RECURSIVE CountedIn(_)
CountedIn(ns) == IF ns = <<>> THEN 0 ELSE Counted(Head(ns)) + CountedIn(Tail(ns))

InRegion(st) == st.open >= st.starting

\* Where the region entered at depth d ends in ns, Len(ns) + 1 if nowhere.
EndOfRegion(ns, d) ==
    LET hits == {i \in 1..Len(ns) : IsCloseBlock(ns[i], d)}
    IN  IF hits = {} THEN Len(ns) + 1
        ELSE CHOOSE i \in hits : \A j \in hits : i <= j

\* A mismatch that removes the unmatched node and goes on rehydrating with
\* the node after it.
Abandon_resume(st, want) ==
    LET n == Head(st.cand)
    IN  IF InRegion(st) /\ IsCloseBlock(n, st.open)
        THEN [st EXCEPT !.cand = <<>>, !.next = st.cand]
        ELSE [st EXCEPT !.cand = Tail(st.cand),
                        !.removed = @ + Counted(n),
                        !.events = Append(@, Event("remove", n.id, n.v, want,
                                                   Tail(st.cand), Counted(n)))]

\* Mismatch: the node at the cursor is not what the instruction calls for
\* (want: a tag, "#text", "#comment" or "#block").  The unmatched node is
\* removed and counted, and rehydration is abandoned up to the end of the
\* enclosing region.  A region that simply has no node left for the
\* instruction has its end marker at the cursor: nothing is unmatched.
Abandon(st, want) ==
    LET n == Head(st.cand)
    IN  IF InRegion(st) /\ IsCloseBlock(n, st.open)
        THEN [st EXCEPT !.cand = <<>>, !.next = st.cand]
        ELSE [st EXCEPT !.cand = <<>>,
                        !.next = Tail(st.cand),
                        !.removed = @ + Counted(n),
                        !.events = Append(@, Event("remove", n.id, n.v, want,
                                                   Tail(st.cand), Counted(n)))]

\* A sweep that moves over the stale remainder and leaves it in the tree.
Sweep_keepStale(st, ns) ==
    LET stop == IF InRegion(st) THEN EndOfRegion(ns, st.open) ELSE Len(ns) + 1
    IN  [st EXCEPT !.cand = <<>>,
                   !.next = SubSeq(ns, stop, Len(ns)),
                   !.out = @ \o SubSeq(ns, 1, stop - 1)]

\* The stale remainder ns, up to the end marker of the region (all of it
\* in an element with no region entered), is removed in one sweep.
Sweep(st, ns) ==
    LET stop == IF InRegion(st) THEN EndOfRegion(ns, st.open) ELSE Len(ns) + 1
        gone == SubSeq(ns, 1, stop - 1)
    IN  [st EXCEPT !.cand = <<>>,
                   !.next = SubSeq(ns, stop, Len(ns)),
                   !.removed = @ + CountedIn(gone),
                   !.mismatch = @ \/ (InRegion(st) /\ stop > Len(ns)),
                   !.events = @ \o [i \in 1..Len(gone) |->
                                       Event("sweep", gone[i].id, gone[i].v, "",
                                             SubSeq(ns, i + 1, Len(ns)),
                                             Counted(gone[i]))]]

Made(st, n) == [st EXCEPT !.out = Append(@, n)]

\* A pass that takes no start marker for the one it looks for.
OpenBlock_noMatch(d, st) ==
    IF st.cand = <<>> THEN st ELSE Abandon(st, "#block")

\* Entering a region: the cursor is put just after the start marker.
OpenBlock(d, st) ==
    IF st.cand = <<>> THEN st
    ELSE IF IsOpenBlock(Head(st.cand), d)
         THEN [st EXCEPT !.cand = Tail(@),
                         !.open = d,
                         !.events = Append(@, Event("strip", Head(st.cand).id, "", "",
                                                    Tail(st.cand), 0))]
         ELSE Abandon(st, "#block")

\* A close that moves past the end marker and leaves it in the tree.
CloseBlock_keepMarker(d, st) ==
    IF st.open # d THEN st
    ELSE LET left == IF st.cand # <<>> THEN Sweep(st, st.cand) ELSE Sweep(st, st.next)
         IN  IF left.next # <<>> /\ IsCloseBlock(Head(left.next), d)
             THEN [left EXCEPT !.cand = Tail(left.next),
                               !.next = <<>>,
                               !.open = d - 1,
                               !.out = Append(@, Head(left.next)),
                               !.events = Append(@, Event("strip", Head(left.next).id,
                                                          "", "", Tail(left.next), 0))]
             ELSE [left EXCEPT !.mismatch = TRUE]

\* Leaving a region: what is left before the end marker goes, then the
\* cursor moves past the end marker and rehydration is on again.
CloseBlock(d, st) ==
    IF st.open # d THEN st
    ELSE LET left == IF st.cand # <<>> THEN Sweep(st, st.cand) ELSE Sweep(st, st.next)
         IN  IF left.next # <<>> /\ IsCloseBlock(Head(left.next), d)
             THEN [left EXCEPT !.cand = Tail(left.next),
                               !.next = <<>>,
                               !.open = d - 1,
                               !.events = Append(@, Event("strip", Head(left.next).id,
                                                          "", "", Tail(left.next), 0))]
             ELSE [left EXCEPT !.mismatch = TRUE]

\* A repair that puts a new text node in the place of the old one.
AppendText_newNode(v, st) ==
    IF st.cand = <<>> THEN Made(st, Text(v, NewNode))
    ELSE LET n == Head(st.cand)
             rest == Tail(st.cand)
         IN  IF IsText(n) \/ IsEmpty(n)
             THEN [st EXCEPT !.cand = rest,
                             !.out = Append(@, IF IsText(n) /\ n.v = v THEN n
                                               ELSE Text(v, NewNode)),
                             !.events = Append(@, Event(IF IsEmpty(n) THEN "replace"
                                                        ELSE IF n.v = v THEN "adopt"
                                                        ELSE "repair",
                                                        n.id, n.v, v, rest, 0))]
             ELSE Made(Abandon(st, "#text"), Text(v, NewNode))

\* An instruction that calls for text.
AppendText(v, st) ==
    IF st.cand = <<>> THEN Made(st, Text(v, NewNode))
    ELSE LET n == Head(st.cand)
             rest == Tail(st.cand)
         IN  IF IsText(n)
             THEN [st EXCEPT !.cand = rest,
                             !.out = Append(@, [n EXCEPT !.v = v]),
                             !.events = Append(@, Event(IF n.v = v THEN "adopt"
                                                        ELSE "repair",
                                                        n.id, n.v, v, rest, 0))]
             ELSE IF IsEmpty(n)
             THEN [st EXCEPT !.cand = rest,
                             !.out = Append(@, Text(v, NewNode)),
                             !.events = Append(@, Event("replace", n.id, "", v,
                                                        rest, 0))]
             ELSE Made(Abandon(st, "#text"), Text(v, NewNode))

\* An instruction that calls for a comment (the empty block's <!---->).
AppendComment(v, st) ==
    IF st.cand = <<>> THEN Made(st, Comment(v, NewNode))
    ELSE LET n == Head(st.cand)
             rest == Tail(st.cand)
         IN  IF IsComment(n) /\ ~IsMarker(n)
             THEN [st EXCEPT !.cand = rest,
                             !.out = Append(@, [n EXCEPT !.v = v]),
                             !.events = Append(@, Event("adopt", n.id, n.v, v, rest, 0))]
             ELSE Made(Abandon(st, "#comment"), Comment(v, NewNode))

RECURSIVE RehydrateAll(_, _, _, _)
\* An instruction that opens an element, its children, and its close.
RehydrateElement(t, C, d, st) ==
    LET match == st.cand # <<>> /\ IsElement(Head(st.cand), t.v)
        n == Head(st.cand)
        before == IF match \/ st.cand = <<>> THEN st ELSE Abandon(st, t.v)
        inner == RehydrateAll(t.kids, C, d,
                     Cursor(IF match THEN n.kids ELSE <<>>, d, before.removed,
                            before.mismatch,
                            IF match
                            THEN Append(before.events,
                                        Event(IF n.a = ClassOf(t, C) THEN "adopt"
                                              ELSE "attribute",
                                              n.id, n.a, ClassOf(t, C), n.kids, 0))
                            ELSE before.events,
                            before.remotes))
        closed == IF inner.cand # <<>> THEN Sweep(inner, inner.cand)
                  ELSE IF inner.next # <<>> THEN Sweep(inner, inner.next)
                  ELSE inner
    IN  [before EXCEPT !.cand = IF match THEN Tail(st.cand) ELSE before.cand,
                       !.out = Append(@, ElementNode(t.v, ClassOf(t, C),
                                                     closed.out \o closed.next,
                                                     IF match THEN n.id ELSE NewNode)),
                       !.removed = closed.removed,
                       !.mismatch = closed.mismatch,
                       !.events = closed.events,
                       !.remotes = closed.remotes]

\* The cursor here of the statement after the pass over the remote element
\* ended as remote, the element left with content.
RemoteDone(t, here, remote, content) ==
    [here EXCEPT !.removed = remote.removed,
                 !.mismatch = remote.mismatch,
                 !.events = remote.events,
                 !.remotes = [remote.remotes EXCEPT ![t.v] = content]]

\* The body of {{#in-element}} rehydrated over existing, the children of
\* the remote element, with a cursor of its own.
RehydrateRemote(t, C, d, here, existing) ==
    CloseBlock(d + 1,
        RehydrateAll(t.kids, C, d + 2,
            OpenBlock(d + 1, Cursor(existing, d + 1, here.removed, here.mismatch,
                                    here.events, here.remotes))))

\* The remote element after the pass: what the cursor put there and what
\* it did not come to.
RemoteContent(remote) == remote.out \o remote.cand \o remote.next

\* The statement: its block holds <!---->.
InElementBlock(d, st) == CloseBlock(d, AppendComment("", OpenBlock(d, st)))

\* A remote region that is given up when the cursor around its statement
\* has been given up.
RehydrateInElement_sharedCursor(t, C, d, st) ==
    IF st.cand = <<>>
    THEN RemoteDone(t, InElementBlock(d, st),
                    RehydrateRemote(t, C, d, InElementBlock(d, st), <<>>),
                    RemoteContent(RehydrateRemote(t, C, d, InElementBlock(d, st), <<>>))
                    \o st.remotes[t.v])
    ELSE RemoteDone(t, InElementBlock(d, st),
                    RehydrateRemote(t, C, d, InElementBlock(d, st), st.remotes[t.v]),
                    RemoteContent(RehydrateRemote(t, C, d, InElementBlock(d, st),
                                                  st.remotes[t.v])))

\* {{#in-element target}}: the block of the statement holds <!---->; the
\* body is rehydrated in the remote element with a cursor of its own, over
\* the region the server left there.
RehydrateInElement(t, C, d, st) ==
    RemoteDone(t, InElementBlock(d, st),
               RehydrateRemote(t, C, d, InElementBlock(d, st), st.remotes[t.v]),
               RemoteContent(RehydrateRemote(t, C, d, InElementBlock(d, st),
                                             st.remotes[t.v])))

\* Items rehydrated as if no region of their own had been sent for them.
RECURSIVE RehydrateItems_unmarked(_, _, _, _, _)
RehydrateItems_unmarked(its, t, C, d, st) ==
    IF its = <<>> THEN st
    ELSE RehydrateItems_unmarked(Tail(its), t, C, d,
             RehydrateAll(t.kids, [C EXCEPT !.item = Head(its).value], d + 1, st))

\* The items of a list, place by place: the region of an item is entered,
\* its body rehydrated and the region left.
RECURSIVE RehydrateItems(_, _, _, _, _)
RehydrateItems(its, t, C, d, st) ==
    IF its = <<>> THEN st
    ELSE RehydrateItems(Tail(its), t, C, d,
             CloseBlock(d, RehydrateAll(t.kids, [C EXCEPT !.item = Head(its).value],
                                        d + 1, OpenBlock(d, st))))

RehydrateOne(t, C, d, st) ==
    CASE t.k = "text" -> AppendText(t.v, st)
      [] t.k = "curly" -> CloseBlock(d, AppendText(C[t.v], OpenBlock(d, st)))
      [] t.k = "element" -> RehydrateElement(t, C, d, st)
      [] t.k = "if" ->
           LET inner == OpenBlock(d, st)
           IN  CloseBlock(d, IF Branch(t, C) = <<>>
                             THEN AppendComment("", inner)
                             ELSE RehydrateAll(Branch(t, C), C, d + 1, inner))
      [] t.k = "each" ->
           LET inner == OpenBlock(d, st)
           IN  CloseBlock(d, IF C.items = <<>>
                             THEN AppendComment("", inner)
                             ELSE CloseBlock(d + 1,
                                      RehydrateItems(C.items, t, C, d + 2,
                                                     OpenBlock(d + 1, inner))))
      [] t.k = "in-element" -> RehydrateInElement(t, C, d, st)

RehydrateAll(ts, C, d, st) ==
    IF ts = <<>> THEN st
    ELSE RehydrateAll(Tail(ts), C, d, RehydrateOne(Head(ts), C, d, st))

\* A pass that starts at the first child of the element rendered into.
Rehydrate_fromFirstChild(T, C, existing, targets) ==
    LET done == CloseBlock(0, RehydrateAll(T, C, 1,
                                  OpenBlock(0, Cursor(existing, 0, 0, FALSE, <<>>,
                                                      targets))))
    IN  [done EXCEPT !.out = done.out \o done.cand \o done.next]

\* The pass over the children of the element rendered into, targets the
\* children of the remote elements.  The cursor starts at the outermost
\* start marker: what the element holds before it is not the server's
\* render.
Rehydrate(T, C, existing, targets) ==
    LET marks == {i \in 1..Len(existing) : IsOpenBlock(existing[i], 0)}
        first == IF marks = {} THEN 1 ELSE CHOOSE i \in marks : \A j \in marks : i <= j
        done == CloseBlock(0, RehydrateAll(T, C, 1,
                                  OpenBlock(0, Cursor(SubSeq(existing, first, Len(existing)),
                                                      0, 0, FALSE, <<>>, targets))))
    IN  [done EXCEPT !.out = SubSeq(existing, 1, first - 1)
                              \o done.out \o done.cand \o done.next]

\* What the builder's own state is made of.
builderVars == <<program, start, strings, status, fault, lastOp, prims, labelVars,
                 localVars, invoked, sharedVars, frames, helped, byHelpers, vmVars>>

\* renderServerSide(template, context): the server's first-pass render.
renderServerSide ==
    /\ rendered = "none"
    /\ \E T \in Templates : \E C \in ContextsFor(T) :
          /\ template' = T
          /\ serverContext' = C
          /\ tree' = Create(T, C, TRUE)
          /\ serverOutput' = tree'
          /\ remotes' = CreateRemotes(T, C, TRUE)
          /\ serverRemotes' = remotes'
    /\ rendered' = "server"
    /\ UNCHANGED <<context, removed, mismatch, events>>
    /\ UNCHANGED builderVars

\* What rootElement holds before the server renders into it.
ExtraContent == <<ElementNode("noscript", "", <<>>, <<0>>)>>

\* renderServerSide(template, context, rootElement): the server's render
\* into an element with content of its own.
renderServerSideInto ==
    /\ rendered = "none"
    /\ \E T \in Templates : \E C \in ContextsFor(T) :
          /\ template' = T
          /\ serverContext' = C
          /\ tree' = ExtraContent \o Create(T, C, TRUE)
          /\ serverOutput' = tree'
          /\ remotes' = CreateRemotes(T, C, TRUE)
          /\ serverRemotes' = remotes'
    /\ rendered' = "server"
    /\ UNCHANGED <<context, removed, mismatch, events>>
    /\ UNCHANGED builderVars

\* renderClientSide(template, context): the rehydrating pass over the
\* server's output, run to completion.
renderClientSide ==
    /\ rendered = "server"
    /\ \E C \in ContextsFor(template) :
          /\ context' = C
          /\ \E pass \in {Rehydrate(template, C, tree, remotes)} :
                /\ tree' = pass.out
                /\ remotes' = pass.remotes
                /\ removed' = pass.removed
                /\ mismatch' = pass.mismatch
                /\ events' = pass.events
    /\ rendered' = "client"
    /\ UNCHANGED <<template, serverContext, serverOutput, serverRemotes>>
    /\ UNCHANGED builderVars

NextRehydrate ==
    \/ renderServerSide
    \/ renderClientSide

SpecRehydrate == Init /\ [][NextRehydrate]_vars

\* What a remote element can be made to hold before the client's pass:
\* the server's output for it, nothing, the server's output with a node of
\* another origin at the start of the region or at its end.
Htmls(target) ==
    LET sent == serverRemotes[target]
        other == ElementNode("b", "", <<>>, Append(RemoteId(target), 0))
    IN  {sent, <<>>,
         <<Head(sent), other>> \o Tail(sent),
         SubSeq(sent, 1, Len(sent) - 1) \o <<other, sent[Len(sent)]>>}

\* replaceHTML(clientRemote, html): the content of a remote element is set
\* before the client renders.
replaceHTML ==
    /\ rendered = "server"
    /\ \E target \in Targets :
          /\ serverRemotes[target] # <<>>
          /\ \E html \in Htmls(target) : remotes' = [remotes EXCEPT ![target] = html]
    /\ UNCHANGED <<template, serverContext, serverOutput, serverRemotes, context, tree,
                   rendered, removed, mismatch, events>>
    /\ UNCHANGED builderVars

NextRemote ==
    \/ renderServerSide
    \/ replaceHTML
    \/ renderClientSide

SpecRemote == Init /\ [][NextRemote]_vars

NextInto ==
    \/ renderServerSideInto
    \/ renderClientSide

SpecInto == Init /\ [][NextInto]_vars

(***************************************************************************)
(* Label resolution: what a closed scope should have made of its           *)
(* references, told from the history of label() calls alone.               *)
(***************************************************************************)
IsJump(r) == r.op \in TargetOpcode

\* The scopes closed so far.
Closed == {closedAll[i] : i \in 1..Len(closedAll)}

\* The instruction a reference of scope c becomes when c closes, resolved
\* against the label() calls made in c and in no other scope.
OwnResolution(c, r) ==
    CASE r.op \in TargetOpcode ->
            Instr(r.op, c.placed[r.names[1]], 0, 0)
      [] r.op \in RangeOpcode ->
            Instr(r.op, c.placed[r.names[1]],
                  IF c.placed[r.names[2]] = Undefined THEN NaN
                  ELSE c.placed[r.names[2]] - InstrWidth, 0)
      [] OTHER ->
            Instr("Iterate", c.placed[r.names[1]], c.placed[r.names[2]],
                  IF c.placed[r.names[3]] = Undefined THEN NaN
                  ELSE c.placed[r.names[3]] - InstrWidth)

\* The operands of an instruction that name program offsets.
TargetOperands(i) ==
    CASE i.op \in TargetOpcode -> {i.op1}
      [] i.op \in RangeOpcode -> {i.op1, i.op2}
      [] i.op = "Iterate" -> {i.op1, i.op2, i.op3}
      [] OTHER -> {}

Instructions == {program[i] : i \in 1..Len(program)}

\* The label() history of the scope that enclosed closed scope i at depth d:
\* the next scope closed at that depth, or the one still open there.
EnclosingPlaced(i, d) ==
    IF \E j \in (i + 1)..Len(closedAll) : closedAll[j].depth = d
    THEN closedAll[CHOOSE j \in (i + 1)..Len(closedAll) :
                      /\ closedAll[j].depth = d
                      /\ \A k \in (i + 1)..(j - 1) : closedAll[k].depth # d].placed
    ELSE placed[d]

\* Name n was placed by label() in closed scope i or in a scope enclosing it.
PlacedInScopeOrEnclosing(i, n) ==
    \/ closedAll[i].placed[n] # Undefined
    \/ \E d \in 1..(closedAll[i].depth - 1) : EnclosingPlaced(i, d)[n] # Undefined

\* C1: a jump, range or iterate reference to a label never placed in its
\* scope or an enclosing one makes construction fail: a program is
\* finalized only if every reference of every closed scope names placed
\* labels, and no finalized program holds a jump/range/iterate instruction
\* with a target operand that is not a program offset.
C1_UnplacedLabelFails ==
    status = "finalized" =>
        /\ \A i \in 1..Len(closedAll) : \A r \in closedAll[i].refs :
              \A k \in 1..Len(r.names) : PlacedInScopeOrEnclosing(i, r.names[k])
        /\ \A i \in Instructions : \A t \in TargetOperands(i) : t >= 0

\* C2: when a scope closes, each of its jumps to a label placed in that
\* scope, before or after the jump, holds the offset of the first
\* instruction emitted after the (last) label() call of that name, under
\* the opcode it was reserved with.
C2_JumpsPatchedToLabelOffset ==
    \A c \in Closed : \A r \in c.refs :
        (IsJump(r) /\ c.placed[r.names[1]] # Undefined) =>
            ProgramAt(program, r.at) = Instr(r.op, c.placed[r.names[1]], 0, 0)

\* A closed scope with a forward jump and a backward jump to a placed label.
C2_Witness ==
    \E c \in Closed : \E f \in c.refs, b \in c.refs :
        /\ IsJump(f) /\ IsJump(b)
        /\ c.placed[f.names[1]] # Undefined
        /\ c.placed[f.names[1]] > f.at
        /\ c.placed[b.names[1]] # Undefined
        /\ c.placed[b.names[1]] <= b.at

\* Closing a scope changes the instructions reserved in that scope and no
\* other instruction of the program.
ClosePatchesOwnOnly ==
    Len(labelsStack') < Len(labelsStack) =>
        /\ Len(program') = Len(program)
        /\ \A i \in 1..Len(program) :
              (InstrWidth * (i - 1) \notin {r.at : r \in refs[Len(refs)]})
                  => program'[i] = program[i]

\* Every reference of a closed scope holds what that scope's own label()
\* calls resolve it to, whatever other scopes placed under the same name.
ClosedResolvedByOwnScope ==
    \A c \in Closed : \A r \in c.refs :
        ProgramAt(program, r.at) = OwnResolution(c, r)

\* The references of a scope still open are as reserved: no closing of an
\* inner scope has patched them.
OpenUnpatched ==
    \A k \in 1..Len(refs) : \A r \in refs[k] :
        ProgramAt(program, r.at) = Instr(r.op, 0, 0, 0)

\* C3: label names are resolved only against the scope the referencing
\* instruction was reserved in: closing an inner scope patches the inner
\* scope's instructions with the inner scope's offsets and leaves the outer
\* scope's alone, and the outer scope's are patched with its own offsets
\* when it closes.
C3_ScopesResolveOwnLabels ==
    /\ [](ClosedResolvedByOwnScope /\ OpenUnpatched)
    /\ [][ClosePatchesOwnOnly]_vars

\* An inner and an outer scope, both closed, each with a jump to the same
\* name, the name placed at different offsets in the two scopes.
C3_Witness ==
    \E i \in 1..Len(closedAll), o \in 1..Len(closedAll) :
        /\ i < o
        /\ closedAll[i].depth = 2 /\ closedAll[o].depth = 1
        /\ \E ri \in closedAll[i].refs, ro \in closedAll[o].refs :
              /\ ri.names = ro.names
              /\ closedAll[i].placed[ri.names[1]] # Undefined
              /\ closedAll[o].placed[ro.names[1]] # Undefined
              /\ closedAll[i].placed[ri.names[1]] # closedAll[o].placed[ro.names[1]]
              /\ ProgramAt(program, ri.at).op1 # ProgramAt(program, ro.at).op1

\* C4: stopLabels with no label scope open throws 'unbalanced push and pop
\* labels' and changes no instruction of the program.
C4_UnbalancedStopFaults ==
    [][(lastOp' = "stopLabels" /\ labelsStack = <<>>) =>
          /\ status' = "fault"
          /\ fault' = "unbalanced push and pop labels"
          /\ program' = program]_vars

\* stopLabels was called with no scope open.
C4_Witness ==
    /\ lastOp = "stopLabels"
    /\ status = "fault"
    /\ closedAll # <<>>

\* C5: finalize with a label scope still open fails: no program is
\* finalized while the label-scope stack is non-empty.
C5_FinalizeWithOpenScopeFails ==
    status = "finalized" => labelsStack = <<>>

(***************************************************************************)
(* The primitive encoding, read back from an operand.                      *)
(***************************************************************************)
\* The top two bits of a 32-bit operand.
TagOf(x) ==
    IF x < 0 THEN (IF x < 0 - TwoPow30 THEN 2 ELSE 3)
    ELSE (IF x >= TwoPow30 THEN 1 ELSE 0)

\* The low 30 bits of a 32-bit operand.
PayloadOf(x) == Low31(x) % TwoPow30

\* The literals the encoding is defined for.
IsLiteral(v) == v.t \in {"number", "string", "boolean", "null", "undefined"}

\* The tag and the payload the encoding assigns to a literal.
TagFor(v) ==
    CASE v.t = "number" -> 0
      [] v.t = "string" -> 1
      [] OTHER -> 2

PayloadFor(v) ==
    CASE v.t = "number" -> v.n
      [] v.t = "string" -> CHOOSE h \in 1..Len(strings) : strings[h] = v.s
      [] v.t = "boolean" -> v.n
      [] v.t = "null" -> 2
      [] OTHER -> 3

Emissions == {prims[i] : i \in 1..Len(prims)}

\* C6: the operand of every Primitive instruction emitted for a literal
\* holds the literal's type tag in its top two bits and its payload in its
\* low 30 bits, and two different literals never get the same operand.
C6_PrimitiveEncoding ==
    /\ \A e \in Emissions : IsLiteral(e.lit) =>
          /\ ProgramAt(program, e.at).op = "Primitive"
          /\ TagOf(ProgramAt(program, e.at).op1) = TagFor(e.lit)
          /\ PayloadOf(ProgramAt(program, e.at).op1) = PayloadFor(e.lit)
    /\ \A e1 \in Emissions, e2 \in Emissions :
          (IsLiteral(e1.lit) /\ IsLiteral(e2.lit) /\ e1.lit # e2.lit) =>
              ProgramAt(program, e1.at).op1 # ProgramAt(program, e2.at).op1

\* C7: primitive() of a value that is no number, string, boolean, null or
\* undefined throws and appends nothing: no instruction is ever emitted for
\* such a value.
C7_UnsupportedPrimitiveFaults ==
    \A e \in Emissions : IsLiteral(e.lit)

(***************************************************************************)
(* finalize and the register counter.                                      *)
(***************************************************************************)
\* C8: after finalize the instruction at the builder's start offset is
\* ReserveLocals with operand localsSize, and the last instruction of the
\* program is ReleaseLocals.
C8_FinalizeWritesReservedSlot ==
    status = "finalized" =>
        /\ ProgramAt(program, start) = Instr("ReserveLocals", localsSize, 0, 0)
        /\ program[Len(program)] = Instr("ReleaseLocals", 0, 0, 0)

\* A builder that started on a program already written to, counted
\* registers, emitted instructions and was finalized.
C8_Witness ==
    /\ status = "finalized"
    /\ start > 0
    /\ localsSize > 0
    /\ Emitted > 1

\* C9: localsSize is the largest value the register counter has had; it
\* never decreases, releaseLocal never changes it, and every index local()
\* has returned is below it.
C9_LocalsSizeIsHighWaterMark ==
    /\ [](localsSize = highWater /\ \A r \in returned : r < localsSize)
    /\ [][localsSize' >= localsSize]_vars
    /\ [][lastOp' = "releaseLocal" => localsSize' = localsSize]_vars

\* Registers were released below the high-water mark and local() was called
\* again.
C9_Witness ==
    /\ lastOp = "local"
    /\ reuse
    /\ locals < localsSize

\* The registers held are pairwise different and none is negative.
HeldDistinct ==
    /\ \A i \in 1..Len(live), j \in 1..Len(live) : i # j => live[i] # live[j]
    /\ \A i \in 1..Len(live) : live[i] >= 0

\* C10: local() returns the count of allocated registers and increments it,
\* releaseLocal() decrements it, and the local() after a release returns the
\* register just released; while every release gives back the newest
\* register held and none exceeds the allocations, the registers held at
\* one time are pairwise different and every index returned is >= 0.
C10_RegistersReusedNotShared ==
    /\ [][lastOp' = "local" => (lastRet' = locals /\ locals' = locals + 1)]_vars
    /\ [][lastOp' = "releaseLocal" => locals' = locals - 1]_vars
    /\ [][(lastOp' = "local" /\ lifo /\ relIdx # <<>>) => lastRet' = relIdx[1]]_vars
    /\ [](lifo => (HeldDistinct /\ locals = Len(live) /\ \A r \in returned : r >= 0))

\* A register was released and the next local() returned it, with another
\* register held meanwhile.
C10_Witness ==
    /\ lifo
    /\ lastOp = "local"
    /\ reuse
    /\ Len(live) > 1

\* The instruction a call has just appended, if it appended one.
Appended == SubSeq(program', Len(program) + 1, Len(program'))

\* C11: a register instruction whose index is not below the count of
\* allocated registers is never emitted, and releaseLocal with no register
\* allocated never lowers the count: each of the two calls ends in a fault
\* that leaves the program and the count as they were.
C11_UnallocatedRegisterFaults ==
    /\ [][\A k \in 1..Len(Appended) :
            ~(Appended[k].op \in RegisterOpcode /\ Appended[k].op1 >= locals)]_vars
    /\ [][(lastOp' = "releaseLocal" /\ locals <= 0)
            => (status' = "fault" /\ locals' = locals /\ program' = program)]_vars

(***************************************************************************)
(* The program under the builder's calls.                                  *)
(***************************************************************************)
\* The offsets whose instruction a call has changed.
Overwritten ==
    {InstrWidth * (i - 1) : i \in {j \in 1..Len(program) : program'[j] # program[j]}}

Segment(v) ==
    SubSeq(program, (v.at \div InstrWidth) + 1, (v.at \div InstrWidth) + v.len)

OpsOf(seg) == [k \in 1..Len(seg) |-> seg[k].op]

\* The steps of the component protocol, in order.
ProtocolOrder ==
    <<"SetComponentState", "PushBlock", "PushBlock", "PushDynamicScope",
      "PushComponentArgs", "CreateComponent", "RegisterComponentDestructor",
      "BeginComponentTransaction", "GetComponentSelf", "GetComponentLayout",
      "InvokeDynamic", "DidCreateElement", "DidRenderLayout", "PopScope",
      "PopDynamicScope", "CommitComponentTransaction">>

IsProtocolOp(o) == \E k \in 1..Len(ProtocolOrder) : ProtocolOrder[k] = o

\* The register an instruction that refers to component state names.
StateRegister(i) == IF i.op = "CreateComponent" THEN i.op2 ELSE i.op1

StateOps ==
    {"SetComponentState", "CreateComponent", "RegisterComponentDestructor",
     "GetComponentSelf", "GetComponentLayout", "DidCreateElement",
     "DidRenderLayout"}

\* The places of an opcode in a sequence of opcodes.
Places(ops, o) == {k \in 1..Len(ops) : ops[k] = o}

Invocations == {invoked[k] : k \in 1..Len(invoked)}

\* C12: the instructions of every invokeComponent call are the protocol's
\* steps in its fixed order, the argument expressions between the two
\* PushBlock (default, then inverse) and PushDynamicScope; one
\* BeginComponentTransaction, before the layout's InvokeDynamic, and one
\* CommitComponentTransaction, after the post-creation hooks; every
\* instruction that refers to the component's state names the register
\* allocated on entry, and the call leaves the register count as it found it.
C12_ComponentProtocolOrder ==
    /\ [](\A v \in Invocations :
            LET seg == Segment(v)
                ops == OpsOf(seg)
            IN  /\ SelectSeq(ops, IsProtocolOp) = ProtocolOrder
                /\ \A k \in 1..Len(ops) : ~IsProtocolOp(ops[k]) => (3 < k /\ k <= 3 + v.count)
                /\ Len(ops) = Len(ProtocolOrder) + v.count
                /\ seg[2].op1 = v.block /\ seg[3].op1 = v.inverse
                /\ Cardinality(Places(ops, "BeginComponentTransaction")) = 1
                /\ Cardinality(Places(ops, "CommitComponentTransaction")) = 1
                /\ \A b \in Places(ops, "BeginComponentTransaction"),
                      l \in Places(ops, "InvokeDynamic"),
                      h \in Places(ops, "DidCreateElement") \cup Places(ops, "DidRenderLayout"),
                      c \in Places(ops, "CommitComponentTransaction") :
                        b < l /\ l < h /\ h < c
                /\ \A k \in 1..Len(seg) :
                      seg[k].op \in StateOps => StateRegister(seg[k]) = v.state
                /\ v.state < localsSize)
    /\ [][lastOp' = "invokeComponent" =>
            /\ locals' = locals
            /\ invoked'[Len(invoked')].state = locals
            /\ invoked'[Len(invoked')].at = ProgramNext(program)]_vars

\* Two invocations in one program, their component states in different
\* registers, one with a block and a named argument and one without.
C12_Witness ==
    \E v \in Invocations, w \in Invocations :
        /\ v.state # w.state
        /\ v.block # 0 /\ v.count > 0
        /\ w.block = 0 /\ w.inverse = 0 /\ w.count = 0

\* The number of instructions with opcode o among the first n of the program.
CountOp(o, n) == Cardinality({k \in 1..n : program[k].op = o})

\* C13: in the stream the invokeComponent calls emit, every prefix holds at
\* least as many PushDynamicScope as PopDynamicScope, and after each call
\* the two counts are equal.
C13_DynamicScopeBalanced ==
    /\ \A n \in 0..Len(program) :
          CountOp("PushDynamicScope", n) >= CountOp("PopDynamicScope", n)
    /\ CountOp("PushDynamicScope", Len(program)) = CountOp("PopDynamicScope", Len(program))
    /\ CountOp("PushDynamicScope", Len(program)) = Len(invoked)

(***************************************************************************)
(* The helpers, read back from the program and the history of calls.       *)
(***************************************************************************)
Helped == {helped[k] : k \in 1..Len(helped)}

\* The offsets of the instructions from offset a up to, not including, b.
Offsets(a, b) == {o \in a..(b - 1) : o % InstrWidth = 0}

IsReference(i) == i.op \in TargetOpcode \cup RangeOpcode \cup {"Iterate"}

\* The references still waiting in an open scope.
Pending == UNION {refs[k] : k \in 1..Len(refs)}

\* The instruction at offset o was reserved in a scope since closed, and
\* holds what that scope's patch makes of it.
PatchedAt(o) ==
    \E c \in Closed : \E r \in c.refs :
        /\ r.at = o
        /\ ProgramAt(program, o) = OwnResolution(c, r)

\* The instructions helper call h pushed itself, around its callback.
OwnOffsets(h) == Offsets(h.at, h.body) \cup Offsets(h.bodyEnd, h.end)

\* C15: each helper opens one scope of its own and closes it: a scope is
\* open for every callback running and for nothing else, a helper returns
\* with the label-scope stack at the depth it was entered with, however the
\* helpers nest, and on return every jump, range and iterate instruction
\* reserved inside it, by the helper or under its callback, has been
\* patched, the helper's own to offsets of the program.
C15_HelpersCloseTheirScope ==
    /\ Len(labelsStack) = Len(frames)
    /\ \A k \in 1..Len(frames) : frames[k].depth = k - 1
    /\ \A h \in Helped :
          /\ h.depthAfter = h.depth
          /\ closedAll[h.scope].depth = h.depth + 1
          /\ \A r \in Pending : r.at \notin Offsets(h.at, h.end)
          /\ \A o \in Offsets(h.at, h.end) :
                IsReference(ProgramAt(program, o)) => PatchedAt(o)
          /\ \A o \in OwnOffsets(h) :
                \A t \in TargetOperands(ProgramAt(program, o)) :
                    t >= start /\ t < ProgramNext(program) /\ t % InstrWidth = 0

\* A helper called under the callback of a helper of another kind, a jump
\* emitted under the inner callback, and both helpers returned.
C15_Witness ==
    \E o \in Helped, i \in Helped :
        /\ o.kind # i.kind
        /\ o.body <= i.at /\ i.end <= o.bodyEnd
        /\ \E j \in Offsets(i.body, i.bodyEnd) :
              ProgramAt(program, j).op = "JumpUnless"

\* The labelled calls that have returned, each with its Enter instruction.
Labelled == {h \in Helped : h.kind = "labelled"}

EnterOf(h) == ProgramAt(program, h.at)

\* labelled emits Enter, then what the callback emits, then Exit.
EnterCallbackExit(h) ==
    /\ EnterOf(h).op = "Enter"
    /\ h.body = h.at + InstrWidth
    /\ ProgramAt(program, h.bodyEnd).op = "Exit"
    /\ h.end = h.bodyEnd + InstrWidth

\* Neither the Enter nor the Exit of h lies in the range of its Enter.
RangeExcludesEnterExit(h) ==
    /\ ~(EnterOf(h).op1 <= h.at /\ h.at <= EnterOf(h).op2)
    /\ ~(EnterOf(h).op1 <= h.bodyEnd /\ h.bodyEnd <= EnterOf(h).op2)

\* C16, as claimed: after labelled returns, the first operand of its Enter
\* is the offset of the first instruction the callback emitted and the
\* second the offset of the last one, start <= end, and neither Enter nor
\* Exit lies in the range, for every callback, one that emits nothing too.
C16_EnterRangeBoundsCallback ==
    \A h \in Labelled :
        /\ EnterCallbackExit(h)
        /\ EnterOf(h).op1 = h.body
        /\ EnterOf(h).op2 = h.bodyEnd - InstrWidth
        /\ EnterOf(h).op1 <= EnterOf(h).op2
        /\ RangeExcludesEnterExit(h)

\* C16, amended: as claimed for a callback that emits an instruction; for
\* a callback that emits nothing the range is empty, start = end + 4, its
\* first operand the offset of the Exit and its second that of the Enter.
C16_EnterRangeBoundsCallbackOrEmpty ==
    \A h \in Labelled :
        /\ EnterCallbackExit(h)
        /\ EnterOf(h).op1 = h.body
        /\ EnterOf(h).op2 = h.bodyEnd - InstrWidth
        /\ h.body < h.bodyEnd => EnterOf(h).op1 <= EnterOf(h).op2
        /\ h.body = h.bodyEnd =>
              /\ EnterOf(h).op1 = h.bodyEnd
              /\ EnterOf(h).op2 = h.at
              /\ EnterOf(h).op1 = EnterOf(h).op2 + InstrWidth
        /\ RangeExcludesEnterExit(h)

\* A labelled whose callback emitted instructions and one whose callback
\* emitted nothing, both returned.
C16_Witness ==
    \E h \in Labelled, e \in Labelled :
        /\ h.body + InstrWidth < h.bodyEnd
        /\ e.body = e.bodyEnd

(***************************************************************************)
(* The run of the VM on the instructions of iter.                          *)
(***************************************************************************)
\* The offsets of the instructions iter pushed around its callback.
IterateAt == TheIter.at + InstrWidth
ExitAt == TheIter.bodyEnd
JumpAt == TheIter.bodyEnd + InstrWidth
ExitListAt == TheIter.bodyEnd + 2 * InstrWidth

\* One run of the body: the instructions of the callback and the Exit.
InBody(e) == TheIter.body <= e.at /\ e.at <= ExitAt

BodySize == ((ExitAt - TheIter.body) \div InstrWidth) + 1

\* What the VM has executed of the body, in order.
BodyTrace == SelectSeq(trace, InBody)

\* The times the VM has executed the instruction at offset o.
Times(o) == Cardinality({k \in 1..Len(trace) : trace[k].at = o})

\* The body is run from its first instruction to its last, once for each
\* item, the items in the order of the sequence.
BodyRunsPerItem ==
    /\ Len(BodyTrace) <= Len(items) * BodySize
    /\ \A j \in 1..Len(BodyTrace) :
          /\ BodyTrace[j].at = TheIter.body + InstrWidth * ((j - 1) % BodySize)
          /\ BodyTrace[j].item = items[((j - 1) \div BodySize) + 1]

\* The back-jump goes to Iterate, and Iterate leaves the loop for ExitList,
\* the instruction after the back-jump, when no item is left.
LoopControl ==
    /\ \A k \in 1..(Len(trace) - 1) :
          /\ trace[k].at = JumpAt => trace[k + 1].at = IterateAt
          /\ (trace[k].at = IterateAt /\ trace[k].item = 0)
                => trace[k + 1].at = ExitListAt
    /\ ProgramAt(program, ExitListAt).op = "ExitList"
    /\ ProgramAt(program, IterateAt).op1 = ExitListAt
    /\ Times(ExitListAt) <= 1

\* The run is over: n body runs, n + 1 Iterate, one ExitList.
RunComplete ==
    /\ Len(BodyTrace) = Len(items) * BodySize
    /\ Times(ExitAt) = Len(items)
    /\ Times(IterateAt) = Len(items) + 1
    /\ Times(ExitListAt) = 1
    /\ trace[Len(trace)].at = ExitListAt
    /\ iterator = <<>>

\* C14: the VM on the instructions of iter(callback) and a keyed sequence
\* of n items runs the body n times, once per item in order; after each
\* run the Jump goes back to Iterate; with the sequence exhausted Iterate
\* goes to ExitList, placed after the back-jump; the run always ends, with
\* ExitList executed once.
C14_IterRunsBodyOncePerItem ==
    /\ [](vm # "idle" => (BodyRunsPerItem /\ LoopControl))
    /\ [](vm = "halted" => RunComplete)
    /\ (vm = "running" ~> vm = "halted")

\* A run over two items of a body with an instruction of the callback in
\* it has ended.
C14_Witness ==
    /\ vm = "halted"
    /\ Len(items) > 1
    /\ BodySize > 1
    /\ Len(BodyTrace) = Len(items) * BodySize

\* Several invocations, one after the other, in a finalized program.
C13_Witness ==
    /\ Len(invoked) > 1
    /\ status = "finalized"
    /\ CountOp("PopDynamicScope", Len(program)) > 1

(***************************************************************************)
(* Rehydration: the tree a pass leaves, read back.                         *)
(***************************************************************************)
\* Tags, attributes and text of a tree: the nodes without their identity.
RECURSIVE Structure(_)
Structure(ns) ==
    [i \in 1..Len(ns) |->
        [k |-> ns[i].k, v |-> ns[i].v, a |-> ns[i].a, kids |-> Structure(ns[i].kids)]]

\* Every node of a tree.
RECURSIVE NodesOf(_)
NodesOf(ns) ==
    UNION {{ns[i]} \cup NodesOf(ns[i].kids) : i \in 1..Len(ns)}

Rehydrated == rendered = "client"

\* What the server sent.
ServerTree == serverOutput

\* Every node the server sent, in the element and in the remote elements.
SentNodes ==
    NodesOf(ServerTree) \cup UNION {NodesOf(serverRemotes[target]) : target \in Targets}

\* Every node there is after the client's pass.
FinalNodes == NodesOf(tree) \cup UNION {NodesOf(remotes[target]) : target \in Targets}

\* What a render of the client's own makes of the template.
FreshTree == Create(template, context, FALSE)

\* C18: rehydrating the output of a first-pass render of (T, C) with the
\* same (T, C) removes zero nodes and gives a tree with the tags,
\* attributes and text of a fresh render of (T, C).
C18_IdempotentRehydrate ==
    (Rehydrated /\ context = serverContext) =>
        /\ removed = 0
        /\ Structure(tree) = Structure(FreshTree)

\* The same context twice, on a template with an element, static text, a
\* block and a curly in it; every node of the result is one the server sent.
C18_Witness ==
    /\ Rehydrated
    /\ context = serverContext
    /\ template = TemplateList[4]
    /\ ~context.admin
    /\ context.content = "hello"
    /\ removed = 0
    /\ \A n \in FinalNodes : n.id # NewNode

\* C19: rehydrating the output of a first-pass render of (T, C1) with
\* context C2 ends without a fault and gives a tree with the tags,
\* attributes and text of a fresh render of (T, C2), whatever was removed.
C19_RehydrateConverges ==
    Rehydrated =>
        /\ ~mismatch
        /\ Structure(tree) = Structure(FreshTree)

\* The server rendered <div>hi admin</div>, the client renders <p>HAXOR</p>:
\* the <div> is removed and the tree holds the new <p>.
C19_Witness ==
    /\ Rehydrated
    /\ template = TemplateList[3]
    /\ serverContext.admin
    /\ ~context.admin
    /\ removed = 1
    /\ Structure(tree) =
          <<[k |-> "element", v |-> "p", a |-> "",
             kids |-> <<[k |-> "text", v |-> "HAXOR", a |-> "", kids |-> <<>>]>>]>>
    /\ tree[1].id = NewNode

\* The pass met, where text was called for, an existing text of another
\* value (repair) or the placeholder of an empty text (replace).
Repairs == {events[i] : i \in {j \in 1..Len(events) : events[j].ev = "repair"}}

Replacements ==
    {events[i] : i \in {j \in 1..Len(events) : events[j].ev = "replace"}}

\* The node the server sent after node id under the same parent, NewNode
\* if id was the last one.
SentAfter(id) ==
    LET sibling == [id EXCEPT ![Len(id)] = @ + 1]
    IN  IF \E n \in SentNodes : n.id = sibling THEN sibling ELSE NewNode

\* The existing node of event e is in the tree, changed in its value only;
\* the cursor went on to the node after it and nothing was counted.
RepairedInPlace(e) ==
    /\ \E n \in SentNodes :
          /\ n.id = e.id
          /\ [n EXCEPT !.v = e.now] \in FinalNodes
    /\ \A n \in FinalNodes : n.id = e.id => (IsText(n) /\ n.v = e.now)
    /\ e.cursor = SentAfter(e.id)
    /\ e.counted = 0

\* The placeholder of event e is gone and no node of the tree is it; the
\* text is a new node; the cursor went on and nothing was counted.
PlaceholderReplaced(e) ==
    /\ \E n \in SentNodes : n.id = e.id /\ IsEmpty(n)
    /\ \A n \in FinalNodes : n.id # e.id
    /\ \E n \in FinalNodes : IsText(n) /\ n.v = e.now /\ n.id = NewNode
    /\ e.cursor = SentAfter(e.id)
    /\ e.counted = 0

\* The two renders differ in text (and attribute) values only.
OnlyValuesDiffer ==
    /\ serverContext.admin = context.admin
    /\ Len(serverContext.items) = Len(context.items)

ScopedCalls == {"label"} \cup TargetOpcode \cup RangeOpcode \cup {"Iterate"}

\* The step is one of these calls, made with no label scope open.
CalledOutsideScope == Open /\ labelsStack = <<>> /\ lastOp' \in ScopedCalls

NotInLabelStack ==
    /\ status' = "fault"
    /\ fault' = "bug: not in a label stack"

\* C30: label, jump, jumpIf, jumpUnless, enter, enterList and iterate called
\* with no label scope open raise 'bug: not in a label stack' and leave the
\* program as it was: nothing is appended and no reference is recorded.
C30_NoScopeCallChangesNothing ==
    [][CalledOutsideScope =>
          /\ NotInLabelStack
          /\ program' = program
          /\ refs' = refs /\ labelsStack' = labelsStack]_vars

\* C30, amended: each of the calls raises the fault and records no
\* reference; label leaves the program as it was, the six others have by
\* then appended their instruction, all operands 0.
C30_NoScopeCallFaultsAfterReserve ==
    [][CalledOutsideScope =>
          /\ NotInLabelStack
          /\ refs' = refs /\ labelsStack' = labelsStack
          /\ program' = IF lastOp' = "label" THEN program
                         ELSE Append(program, Instr(lastOp', 0, 0, 0))]_vars

\* enterList was called by a builder that had opened no scope, on a
\* program others had written to: the fault is raised and the EnterList is
\* the program's last instruction.
C30_Witness ==
    /\ status = "fault"
    /\ fault = "bug: not in a label stack"
    /\ lastOp = "EnterList"
    /\ labelsStack = <<>>
    /\ start > 0
    /\ program[Len(program)] = Instr("EnterList", 0, 0, 0)

(***************************************************************************)
(* The VM's regions over a run of the instructions of iter.                *)
(***************************************************************************)
\* The regions as they were before the k-th instruction executed.
RegionsBefore(k) == IF k = 1 THEN <<>> ELSE trace[k - 1].regions

Executed(k) == ProgramAt(program, trace[k].at)

\* Every Exit leaves the region of an item or of an Enter, every ExitList
\* the region of a list: no region is left that was not entered, none is
\* left across another.
LeavesInnermost(k) ==
    /\ Executed(k).op = "Exit" =>
          /\ RegionsBefore(k) # <<>>
          /\ RegionsBefore(k)[Len(RegionsBefore(k))] \in {"item", "block"}
    /\ Executed(k).op = "ExitList" =>
          /\ RegionsBefore(k) # <<>>
          /\ RegionsBefore(k)[Len(RegionsBefore(k))] = "list"

\* When Iterate runs, the list's region is the only one entered: the
\* region of the item before has been left, and with it all inside it.
ItemLeftBeforeNext(k) ==
    Executed(k).op = "Iterate" => RegionsBefore(k) = <<"list">>

\* C29: over a run of the instructions of iter(callback), for any number
\* of items, the region each Iterate enters for its item is left by the
\* Exit after the body before Iterate runs again, the list's region is left
\* by ExitList, regions are left innermost first, and after ExitList the
\* regions are those there were before EnterList.
C29_RegionsBalanced ==
    /\ vm # "idle" =>
          \A k \in 1..Len(trace) : LeavesInnermost(k) /\ ItemLeftBeforeNext(k)
    /\ vm = "halted" =>
          /\ regions = <<>>
          /\ Executed(Len(trace)).op = "ExitList"
          /\ Cardinality({k \in 1..Len(trace) : Executed(k).op = "Exit"
                             /\ trace[k].at = ExitAt}) = Len(items)

\* A run over two items has ended; the body held a region of its own,
\* entered and left inside each item's region.
C29_Witness ==
    /\ vm = "halted"
    /\ Len(items) > 1
    /\ regions = <<>>
    /\ \E k \in 1..Len(trace) : trace[k].regions = <<"list", "item", "block">>


(***************************************************************************)
(* Rehydration: what a pass removed where the cursor held the wrong node.  *)
(***************************************************************************)
\* The mismatches of the pass: the node at the cursor was not what the
\* instruction called for.
Removes == {events[i] : i \in {j \in 1..Len(events) : events[j].ev = "remove"}}

\* The mismatches where an element was called for.
ElementRemoves == {e \in Removes : e.now \notin {"#text", "#comment", "#block"}}

\* The node the server sent as id.
Sent(id) == CHOOSE n \in SentNodes : n.id = id

\* The unmatched node of e is gone from the tree and a new element of the
\* tag called for is in it.
RemovedAndCreated(e) ==
    /\ \A n \in FinalNodes : n.id # e.id
    /\ \E n \in FinalNodes : IsElement(n, e.now) /\ n.id = NewNode

\* The server rendered the one <div> of the region, the client renders the
\* one <p>.
DivThenP == template = TemplateList[3] /\ serverContext.admin /\ ~context.admin

OnlyNewP ==
    /\ removed = 1
    /\ Len(tree) = 1
    /\ IsElement(tree[1], "p")
    /\ tree[1].id = NewNode

SweptAt == {i \in 1..Len(events) : events[i].ev = "sweep"}

\* The existing nodes the pass kept: adopted as they were, or repaired.
Adopted ==
    {events[i].id : i \in {j \in 1..Len(events) :
                              events[j].ev \in {"adopt", "repair", "attribute"}}}

\* What the events added to the count when a comment node counts as
\* comments and any other node as 1.
RECURSIVE CountOver(_, _)
CountOver(es, comments) ==
    IF es = <<>> THEN 0
    ELSE (IF Head(es).ev \in {"remove", "sweep"}
          THEN IF Sent(Head(es).id).k = "comment" THEN comments ELSE 1
          ELSE 0)
         + CountOver(Tail(es), comments)

\* The node swept at i is gone, and what the cursor held after it went
\* next: another node of the remainder, or the region's end marker, which
\* the cursor then moved past.
SweptBeforeEndMarker(i) ==
    /\ \A n \in FinalNodes : n.id # events[i].id
    /\ events[i].cursor # NewNode =>
          /\ i < Len(events)
          /\ events[i + 1].id = events[i].cursor
          /\ \/ events[i + 1].ev = "sweep"
             \/ events[i + 1].ev = "strip" /\ Sent(events[i + 1].id).v = "%-b%"

\* No node of the server's render is in the tree but those the pass adopted.
OnlyAdoptedRemain == \A n \in FinalNodes : n.id # NewNode => n.id \in Adopted

\* C22: the nodes left between the cursor and the end marker of a region
\* being left are all removed, each counted as a removed node, before the
\* cursor moves past the end marker; no node of the previous render that
\* the current render did not produce remains.
C22_StaleRemainderRemovedAndCounted ==
    Rehydrated =>
        /\ \A i \in SweptAt : SweptBeforeEndMarker(i) /\ events[i].counted = 1
        /\ removed = CountOver(events, 1)
        /\ OnlyAdoptedRemain

\* C22, amended: all of the remainder is removed before the cursor moves
\* past the end marker; its text and element nodes are counted, its
\* comment nodes (markers, placeholders, <!---->) are not.
C22_StaleRemainderRemovedCountedUnlessComment ==
    Rehydrated =>
        /\ \A i \in SweptAt :
              /\ SweptBeforeEndMarker(i)
              /\ events[i].counted = IF Sent(events[i].id).k = "comment" THEN 0 ELSE 1
        /\ removed = CountOver(events, 0)
        /\ OnlyAdoptedRemain

\* {{#if admin}}<p>a</p>{{content}}<p>b</p>{{else}}<p>a</p>{{/if}}, admin on
\* the server only: <p>a</p> is adopted and the region is left with two
\* markers, a text and <p>b</p> before its end marker: four nodes swept,
\* two counted.
C22_Witness ==
    /\ Rehydrated
    /\ template = TemplateList[8]
    /\ serverContext.admin /\ ~context.admin
    /\ serverContext.content = "hello"
    /\ Removes = {}
    /\ Cardinality(SweptAt) = 4
    /\ removed = 2
    /\ Len(tree) = 1 /\ tree[1].id # NewNode


(***************************************************************************)
(* Rehydration: what a mismatch gives up and what it leaves alone.         *)
(***************************************************************************)
ParentOf(id) == SubSeq(id, 1, Len(id) - 1)

IndexOf(id) == id[Len(id)]

\* id is anc or a node under it.
Under(id, anc) == Len(id) >= Len(anc) /\ SubSeq(id, 1, Len(anc)) = anc

\* The nodes the server sent under the parent of id.
SiblingsOf(id) ==
    {n \in SentNodes : Len(n.id) = Len(id) /\ ParentOf(n.id) = ParentOf(id)}

\* Where, among its siblings, the region that node id lies in ends: at the
\* first end marker after it whose start marker is not after it too; after
\* the last sibling when no region encloses it.
RegionEndOf(id) ==
    LET sibs == SiblingsOf(id)
        ends == {IndexOf(c.id) : c \in
                    {c \in sibs :
                        /\ c.v = "%-b%"
                        /\ IndexOf(c.id) > IndexOf(id)
                        /\ ~\E o \in sibs : /\ o.v = "%+b%" /\ o.d = c.d
                                             /\ IndexOf(o.id) >= IndexOf(id)
                                             /\ IndexOf(o.id) < IndexOf(c.id)}}
    IN  IF ends = {} THEN Cardinality(sibs) + 1
        ELSE CHOOSE i \in ends : \A j \in ends : i <= j

\* The server's nodes of the region of mismatch e that lie after the
\* unmatched node, with all that is under them.
AfterMismatch(e) ==
    {n \in SentNodes :
        \E s \in SiblingsOf(e.id) : /\ IndexOf(s.id) > IndexOf(e.id)
                                    /\ IndexOf(s.id) < RegionEndOf(e.id)
                                    /\ Under(n.id, s.id)}

\* The server's text and element nodes that lie in no region but the
\* outermost: the output of the template's own static nodes.
OutsideRegions ==
    {n \in SentNodes :
        /\ Len(n.id) = 1
        /\ n.k # "comment"
        /\ \E c \in SiblingsOf(n.id) : IndexOf(c.id) = RegionEndOf(n.id) /\ c.d = 0}

\* Node n of the server's render is in the tree, the very node.
KeptIdentity(n) ==
    /\ n.id \in Adopted
    /\ \E i \in 1..Len(tree) : tree[i].id = n.id /\ tree[i].k = n.k /\ tree[i].v = n.v

\* C25: after a mismatch in a region no existing node of the region behind
\* the unmatched one is adopted: none of them is in the tree; the existing
\* nodes outside the region, before its start marker and after its end
\* marker, are adopted and are the nodes they were.
C25_AbandonedToEndOfRegionOnly ==
    Rehydrated =>
        /\ \A e \in Removes : \A n \in AfterMismatch(e) :
              /\ n.id \notin Adopted
              /\ \A m \in FinalNodes : m.id # n.id
        /\ \A n \in OutsideRegions : KeptIdentity(n)

\* <b>start</b>{{#if admin}}<div>a</div><p>b</p>{{else}}<span>a</span><p>b</p>
\* {{/if}}<p>end</p>, admin on the server only: <span> is called for at the
\* <div>; the <p>b</p> behind it would have matched and is not adopted: the
\* region holds two new nodes, <b> before it and <p>end</p> after it are
\* the server's.
C25_Witness ==
    /\ Rehydrated
    /\ template = TemplateList[9]
    /\ serverContext.admin /\ ~context.admin
    /\ \E e \in Removes :
          /\ e.was = "div" /\ e.now = "span"
          /\ \E n \in AfterMismatch(e) : IsElement(n, "p")
    /\ removed = 2
    /\ Len(tree) = 4
    /\ tree[1].id = <<2>> /\ IsElement(tree[1], "b")
    /\ tree[2].id = NewNode /\ IsElement(tree[2], "span")
    /\ tree[3].id = NewNode /\ IsElement(tree[3], "p")
    /\ tree[4].id = <<7>> /\ IsElement(tree[4], "p")


(***************************************************************************)
(* Rehydration: the markers after the pass.                                *)
(***************************************************************************)
IsBlockMarker(n) == n.k = "comment" /\ n.v \in {"%+b%", "%-b%"}

\* The start and end markers the server sent.
SentMarkers == {n \in SentNodes : IsBlockMarker(n)}

\* The markers the cursor was moved past, into a region or out of it.
Stripped == {events[i].id : i \in {j \in 1..Len(events) : events[j].ev = "strip"}}

\* C27: after the pass no start or end marker is in the tree, and the
\* markers taken out are not counted as removed nodes: a pass over the
\* server's output with the server's context strips every marker and
\* reports 0 removed nodes.
C27_MarkersStrippedUncounted ==
    Rehydrated =>
        /\ \A n \in FinalNodes : ~IsBlockMarker(n)
        /\ \A i \in 1..Len(events) :
              events[i].id \in {m.id : m \in SentMarkers} => events[i].counted = 0
        /\ context = serverContext =>
              /\ removed = 0
              /\ Stripped = {m.id : m \in SentMarkers}

\* <div class={{content}}>{{content}}</div> with the same context twice:
\* the markers of the template and of the curly were sent, all four were
\* stripped, nothing is counted and the <div> holds the text alone.
C27_Witness ==
    /\ Rehydrated
    /\ template = TemplateList[5]
    /\ context = serverContext
    /\ context.content = "hello"
    /\ Cardinality(SentMarkers) = 4
    /\ Cardinality(Stripped) = 4
    /\ removed = 0
    /\ Len(tree) = 1 /\ Len(tree[1].kids) = 1 /\ tree[1].id # NewNode


(***************************************************************************)
(* Rehydration into an element with content of its own.                    *)
(***************************************************************************)
\* The events on the nodes the element held before the server's render.
OnExtraContent ==
    {i \in 1..Len(events) : \E j \in 1..Len(ExtraContent) : events[i].id = ExtraContent[j].id}

\* C28: what the root element holds before the outermost start marker is
\* left as it is: not adopted as output of the template, not removed, not
\* counted; with the server's context the pass removes 0 nodes.
C28_ExtraContentUntouched ==
    Rehydrated =>
        /\ Len(tree) >= Len(ExtraContent)
        /\ SubSeq(tree, 1, Len(ExtraContent)) = ExtraContent
        /\ \A i \in Len(ExtraContent) + 1..Len(tree) :
              \A j \in 1..Len(ExtraContent) : tree[i].id # ExtraContent[j].id
        /\ OnExtraContent = {}
        /\ removed = CountOver(events, 0)
        /\ Structure(tree) = Structure(ExtraContent \o FreshTree)
        /\ context = serverContext => removed = 0

\* <noscript></noscript> before the server's <div class="hello">hello</div>:
\* after the pass the element holds the <noscript> and the server's <div>.
C28_Witness ==
    /\ Rehydrated
    /\ template = TemplateList[5]
    /\ context = serverContext
    /\ context.content = "hello"
    /\ removed = 0
    /\ Len(tree) = 2
    /\ IsElement(tree[1], "noscript")
    /\ IsElement(tree[2], "div") /\ tree[2].id = <<2>>
    /\ Stripped # {}


(***************************************************************************)
(* The markers of a first-pass render.                                     *)
(***************************************************************************)
\* Every start marker of ns has its end marker of the same depth after it,
\* the pairs one inside the other or one after the other, and so in every
\* element of ns; open holds the depths of the regions not yet ended.
RECURSIVE Nested(_, _)
Nested(ns, open) ==
    IF ns = <<>> THEN open = <<>>
    ELSE LET n == Head(ns)
         IN  IF n.k = "comment" /\ n.v = "%+b%"
             THEN Nested(Tail(ns), Append(open, n.d))
             ELSE IF n.k = "comment" /\ n.v = "%-b%"
             THEN /\ open # <<>>
                  /\ open[Len(open)] = n.d
                  /\ Nested(Tail(ns), SubSeq(open, 1, Len(open) - 1))
             ELSE /\ (n.k = "element" => Nested(n.kids, <<>>))
                  /\ Nested(Tail(ns), open)

\* The depth of the block of the {{#each}} in the server's render, 0 when
\* the render has none.
EachDepth ==
    IF template = TemplateList[11] THEN 1
    ELSE IF template = TemplateList[12] /\ serverContext.admin THEN 2
    ELSE 0

StartsAt(d) == {i \in 1..Len(ServerTree) : ServerTree[i].v = "%+b%" /\ ServerTree[i].d = d}

EndsAt(d) == {i \in 1..Len(ServerTree) : ServerTree[i].v = "%-b%" /\ ServerTree[i].d = d}

\* The list rendered at depth d: inside the block of the statement one pair
\* of markers around the iteration, holding one pair per item and nothing
\* else, each pair of an item around the <p> of the item.
ListMarkers(d) ==
    LET n == Len(serverContext.items)
    IN  /\ Cardinality(StartsAt(d)) = 1 /\ Cardinality(EndsAt(d)) = 1
        /\ n > 0 =>
              /\ Cardinality(StartsAt(d + 1)) = 1 /\ Cardinality(EndsAt(d + 1)) = 1
              /\ Cardinality(StartsAt(d + 2)) = n /\ Cardinality(EndsAt(d + 2)) = n
              /\ \A i \in StartsAt(d + 1) : \A j \in EndsAt(d + 1) :
                    /\ j - i - 1 = 3 * n
                    /\ \A k \in StartsAt(d + 2) :
                          /\ i < k /\ k + 2 < j
                          /\ (k - i) % 3 = 1
                          /\ ServerTree[k + 1].k = "element"
                          /\ k + 2 \in EndsAt(d + 2)

\* C23: in the output of a first-pass render every start marker has its
\* one end marker of the same depth and the pairs are nested, none
\* overlapping another; a keyed list has one pair for the iteration and,
\* inside it, one pair per item rendered.
C23_MarkersBalanced ==
    rendered # "none" =>
        /\ Nested(ServerTree, <<>>)
        /\ \A target \in Targets : Nested(serverRemotes[target], <<>>)
        /\ ServerTree = Create(template, serverContext, TRUE)
        /\ EachDepth > 0 => ListMarkers(EachDepth)

\* {{#each items key='id' as |item|}}<p>{{item}}</p>{{/each}} over two items,
\* as the server sent it: the markers of the template, of the statement,
\* of the list and of the two items, and in each <p> those of {{item}}.
C23_Witness ==
    /\ rendered = "server"
    /\ template = TemplateList[11]
    /\ Len(serverContext.items) = 2
    /\ Len(tree) = 12
    /\ Cardinality(StartsAt(3)) = 2
    /\ IsOpenBlock(tree[4], 3) /\ IsCloseBlock(tree[6], 3)
    /\ IsOpenBlock(tree[5].kids[1], 4) /\ IsCloseBlock(tree[5].kids[3], 4)


(***************************************************************************)
(* Rehydration of a keyed list.                                            *)
(***************************************************************************)
\* A list was rendered twice, with as many items.
SameShape ==
    /\ EachDepth > 0
    /\ serverContext.admin = context.admin
    /\ Len(serverContext.items) = Len(context.items)

\* The places of the list where the two renders show another value, have
\* another key.
ValueChanged ==
    {i \in 1..Len(context.items) : serverContext.items[i].value # context.items[i].value}

KeyChanged ==
    {i \in 1..Len(context.items) : serverContext.items[i].key # context.items[i].key}

\* C26: a keyed list of n items rehydrated over the server's render of n
\* items of the same shape: every text and element node the server sent
\* is adopted and 0 nodes are removed, whatever the keys and the values of
\* the items; only the texts whose value changed are repaired.
C26_ListReconciledByPosition ==
    (Rehydrated /\ SameShape) =>
        /\ removed = 0
        /\ Removes = {} /\ SweptAt = {}
        /\ \A n \in SentNodes : n.k # "comment" =>
              /\ n.id \in Adopted
              /\ \E m \in FinalNodes : m.id = n.id /\ m.k = n.k
        /\ \A n \in FinalNodes : n.k # "comment" => n.id # NewNode
        /\ \A e \in Repairs : e.was # e.now /\ RepairedInPlace(e)
        /\ Cardinality(Repairs) = Cardinality(ValueChanged)
        /\ Structure(tree) = Structure(FreshTree)

\* Two items on both sides: the first with another key and the same value,
\* the second with the same key and another value: nothing is removed, one
\* text is repaired.
C26_Witness ==
    /\ Rehydrated
    /\ template = TemplateList[11]
    /\ Len(context.items) = 2
    /\ Len(serverContext.items) = 2
    /\ KeyChanged = {1}
    /\ ValueChanged = {2}
    /\ removed = 0
    /\ Cardinality(Repairs) = 1
    /\ Len(tree) = 2
    /\ tree[1].id # NewNode /\ tree[2].id # NewNode
    /\ tree[2].kids[1].id # NewNode /\ tree[2].kids[1].v = context.items[2].value


(***************************************************************************)
(* Rehydration of remote regions.                                          *)
(***************************************************************************)
\* What a pass did to the nodes of the remote element target, in order.
EventsIn(pass, target) ==
    LET InTarget(e) == e.id # NewNode /\ Under(e.id, RemoteId(target))
    IN  SelectSeq(pass.events, InTarget)

\* The pass of this step, had the remote elements held parent and child.
PassOver(parent, child) ==
    Rehydrate(template, context', tree, [remoteParent |-> parent, remoteChild |-> child])

\* What the pass does in target and leaves there is the same whatever the
\* other remote element holds.
SameWhatever(target) ==
    IF target = "remoteParent"
    THEN \A child \in Htmls("remoteChild") :
            /\ EventsIn(PassOver(remotes.remoteParent, child), target)
                  = EventsIn([events |-> events'], target)
            /\ PassOver(remotes.remoteParent, child).remotes[target] = remotes'[target]
    ELSE \A parent \in Htmls("remoteParent") :
            /\ EventsIn(PassOver(parent, remotes.remoteChild), target)
                  = EventsIn([events |-> events'], target)
            /\ PassOver(parent, remotes.remoteChild).remotes[target] = remotes'[target]

\* The client's pass over a template with a remote region in a remote
\* region.
NestedRemotePass ==
    /\ rendered = "server" /\ rendered' = "client"
    /\ template = TemplateList[13]

\* C24: a remote region inside a remote region: what is adopted and what
\* is removed in the target of the one does not depend on what the target
\* of the other holds; with the server's output in both, the pass removes
\* 0 nodes and each target keeps its own content.
C24_RemoteRegionsIndependent ==
    [][NestedRemotePass =>
          /\ \A target \in Targets : SameWhatever(target)
          /\ remotes = serverRemotes =>
                /\ removed' = 0
                /\ \A target \in Targets :
                      /\ Structure(remotes'[target])
                            = Structure(CreateRemote(template, context', FALSE, target))
                      /\ \A n \in NodesOf(remotes'[target]) :
                            n.id # NewNode /\ Under(n.id, RemoteId(target))]_vars

\* The inner target held a node of another origin before the server's
\* text: it was removed and counted and the text made anew, while the
\* outer target's <inner> and <!----> are the server's nodes.
C24_Witness ==
    /\ Rehydrated
    /\ template = TemplateList[13]
    /\ removed = 2
    /\ \E i \in 1..Len(events) : events[i].ev = "remove" /\ events[i].id = <<-2, 0>>
    /\ Len(remotes.remoteChild) = 1
    /\ remotes.remoteChild[1].v = "Wat Wat" /\ remotes.remoteChild[1].id = NewNode
    /\ Len(remotes.remoteParent) = 1
    /\ remotes.remoteParent[1].id = <<-1, 2>>
    /\ remotes.remoteParent[1].kids[1].id = <<-1, 2, 2>>


(***************************************************************************)
(* invokeStatic: what one call leaves in the program                       *)
(***************************************************************************)
\* The instructions call s pushed, in order.
CodeOf(s) ==
    SubSeq(program, (s.at \div InstrWidth) + 1, (s.at \div InstrWidth) + s.len)

\* Where in its code call s pushed instruction o, counted from 1.
PositionsOf(s, o) == {j \in 1..s.len : CodeOf(s)[j].op = o}

\* The number of arguments call s was given: numArgs, or the callbacks.
GivenArgs(s) == IF OnStack(s.args) THEN s.args[1].n ELSE Len(s.args)

\* The number of parameters call s binds.
Bound(s) == Min(GivenArgs(s), Len(s.block.parameters))

\* The SetVariable at position j of call s is its Rank-th one.
Rank(s, j) == Cardinality({i \in PositionsOf(s, "SetVariable") : i <= j})

\* C31: invokeStatic(block, numArgs), for a block with p parameters and
\* numArgs n >= 0, pushes max(n - p, 0) Pop instructions first, then
\* min(n, p) SetVariable instructions, all before InvokeStatic: n
\* instructions that take a value from the operand stack, whatever p is.
\* The SetVariable instructions name the parameters from parameter
\* min(n, p) - 1 down to parameter 0.
C31_StackModeConsumesNumArgs ==
    \A k \in 1..Len(statics) :
        OnStack(statics[k].args) =>
            /\ PositionsOf(statics[k], "Pop") =
                  1..Max(statics[k].args[1].n - Len(statics[k].block.parameters), 0)
            /\ Cardinality(PositionsOf(statics[k], "SetVariable")) =
                  Min(statics[k].args[1].n, Len(statics[k].block.parameters))
            /\ Cardinality(PositionsOf(statics[k], "Pop"))
                  + Cardinality(PositionsOf(statics[k], "SetVariable"))
                  = statics[k].args[1].n
            /\ \A j \in PositionsOf(statics[k], "SetVariable") :
                  /\ \A i \in PositionsOf(statics[k], "Pop") : i < j
                  /\ \A i \in PositionsOf(statics[k], "InvokeStatic") : j < i
                  /\ CodeOf(statics[k])[j].op1 =
                        statics[k].block.parameters[
                            Bound(statics[k]) - Rank(statics[k], j) + 1]

\* A call with more values on the stack than the block has parameters, and
\* more than one parameter to bind.
C31_Witness ==
    \E k \in 1..Len(statics) :
        /\ OnStack(statics[k].args)
        /\ statics[k].args[1].n > Len(statics[k].block.parameters)
        /\ Len(statics[k].block.parameters) > 1
        /\ PositionsOf(statics[k], "InvokeStatic") # {}

\* C32: in what invokeStatic pushes, in either mode, ChildScope is there if
\* and only if PopScope is, which is exactly when a parameter is bound
\* (min(args, parameters) > 0); ChildScope then comes before every
\* SetVariable, InvokeStatic after them, and PopScope right after
\* InvokeStatic.  Exactly one InvokeStatic is pushed in every case.
C32_ScopeBracketsInvocation ==
    \A k \in 1..Len(statics) :
        /\ Cardinality(PositionsOf(statics[k], "InvokeStatic")) = 1
        /\ Cardinality(PositionsOf(statics[k], "ChildScope")) =
              (IF Bound(statics[k]) > 0 THEN 1 ELSE 0)
        /\ Cardinality(PositionsOf(statics[k], "PopScope")) =
              (IF Bound(statics[k]) > 0 THEN 1 ELSE 0)
        /\ \A c \in PositionsOf(statics[k], "ChildScope") :
              \A j \in PositionsOf(statics[k], "SetVariable") : c < j
        /\ \A i \in PositionsOf(statics[k], "InvokeStatic") :
              /\ \A j \in PositionsOf(statics[k], "SetVariable") : j < i
              /\ PositionsOf(statics[k], "PopScope") \subseteq {i + 1}

\* A call whose callbacks compile the arguments, more of them than the
\* block has parameters, after a call that binds nothing.
C32_Witness ==
    /\ \E k \in 1..Len(statics) :
          /\ ~OnStack(statics[k].args)
          /\ Len(statics[k].args) > Len(statics[k].block.parameters)
          /\ Cardinality(PositionsOf(statics[k], "SetVariable")) > 1
          /\ PositionsOf(statics[k], "PopScope") # {}
    /\ \E k \in 1..Len(statics) :
          /\ Bound(statics[k]) = 0
          /\ PositionsOf(statics[k], "PopScope") = {}


(***************************************************************************)
(* Several builders on one program                                         *)
(***************************************************************************)
\* Every builder of the program, the first one first.
Builders ==
    <<[start |-> start, locals |-> locals, localsSize |-> localsSize,
       status |-> status]>> \o builders

\* The place in the program of the slot builder b's start designates.
SlotOf(b) == (Builders[b].start \div InstrWidth) + 1

\* This step is finalize on builder b.
Finalizes(b) ==
    /\ Builders[b].status = "open"
    /\ Builders'[b].status = "finalized"

\* This step constructs a builder.
Constructs == Len(Builders') = Len(Builders) + 1

\* C33: with several builders on one program, each builder's start keeps
\* designating the ReserveLocals slot that builder itself reserved, and
\* finalize on one builder changes only the operand of its own slot and
\* appends one ReleaseLocals: every other instruction, the other builders'
\* ReserveLocals operands and their register counters stay as they were.
C33_FinalizeTouchesOwnSlotOnly ==
    [][/\ Constructs =>
             /\ Len(program') = Len(program) + 1
             /\ (Builders'[Len(Builders')].start \div InstrWidth) + 1 = Len(program')
       /\ \A b \in 1..Len(Builders) :
             /\ Builders'[b].start = Builders[b].start
             /\ program'[SlotOf(b)].op = "ReserveLocals"
             /\ \A c \in 1..Len(Builders') : c # b => SlotOf(c)' # SlotOf(b)'
             /\ Finalizes(b) =>
                   /\ Len(program') = Len(program) + 1
                   /\ program'[Len(program')] = Instr("ReleaseLocals", 0, 0, 0)
                   /\ program'[SlotOf(b)] =
                         [program[SlotOf(b)] EXCEPT !.op1 = Builders[b].localsSize]
                   /\ \A k \in 1..Len(program) :
                         k # SlotOf(b) => program'[k] = program[k]
                   /\ \A c \in 1..Len(Builders) :
                         c # b => Builders'[c] = Builders[c]
                   /\ Builders'[b].locals = Builders[b].locals
                   /\ Builders'[b].localsSize = Builders[b].localsSize]_vars

\* A builder constructed and finalized while the first one is open, each
\* with registers counted and a different number of them, and another one
\* still open.
C33_Witness ==
    /\ status = "open"
    /\ localsSize > 1
    /\ Len(builders) > 1
    /\ builders[1].status = "finalized"
    /\ builders[1].localsSize = 1
    /\ ProgramAt(program, builders[1].start).op1 = 1
    /\ builders[2].status = "open"
    /\ builders[2].localsSize = 0
    /\ \E k \in 1..Len(program) : program[k].op = "ReleaseLocals"

====
